---- MODULE Spec2Model ----
(***************************************************************************)
(* Scroll Control plugin (src/main.ts): the pane lifecycle tracker, the    *)
(* overlay factory, the stylesheet synchronizer and the debounced          *)
(* reconciliation, as a state machine driven by the host workspace.        *)
(***************************************************************************)
EXTENDS Integers, Sequences, FiniteSets, TLC

\* ------------------------------------------------------------------ bounds
NumLeaves == 2          \* pane handles the host workspace can hand out
TicksPerWindow == 2     \* clock ticks the debounce window is divided into
MaxPendingSaves == 1    \* saveData promises that may be pending at once
MaxBurst == 2           \* layout-change notifications counted in one burst
MaxColorLen == 8        \* characters of the longest colour string tried
MaxOverlappingSaves == 2 \* saveData promises pending at once when saves overlap
MaxLines == 2           \* lines of the longest document an editor holds
MaxScrollHeight == 1    \* the largest scrollHeight of a preview container
MaxButtons == 4         \* floating button elements of the legacy variant alive at once
MaxLegacySaves == 2     \* saveSettings calls made on the legacy variant
MaxHideTicks == 2       \* slider steps of the longest autoHideDelay tried
MaxLegacyLines == 8     \* lines of the longest document scrollPartial is tried on
MaxScrollStep == 9      \* the largest scrollStep tried off the slider, either sign

\* ------------------------------------------------------- program constants
DEBOUNCE_MS == 300      \* src/main.ts:216

TickMs == DEBOUNCE_MS \div TicksPerWindow

AUTO_HIDE_STEP_MS == 500 \* src/unnamed/part_001:466, the step of the delay slider
LINE_PX == 20           \* src/unnamed/part_001:154
BUTTON_PITCH_PX == 48   \* src/unnamed/part_001:192

\* The values of autoHideDelay tried: multiples of the slider step.
AutoHideDelays == { k * AUTO_HIDE_STEP_MS : k \in 1..MaxHideTicks }
MaxHideDelay == MaxHideTicks * AUTO_HIDE_STEP_MS

Leaves == 1..NumLeaves
NoLeaf == 0             \* null (no active leaf)
NoEntry == 0            \* Map.get(leaf) === undefined
ElemIds == 1..(2 * NumLeaves)
ViewIds == 1..2
Idle == -1              \* no debounce timer pending

VARIABLES
    phase,                  \* plugin lifecycle: constructed, loaded, ready, unloaded
    settings,               \* this.settings
    leaves,                 \* host workspace: leaf -> [open, md, content, view]
    activeLeaf,             \* app.workspace.activeLeaf
    subscribed,             \* layout-change / active-leaf-change handlers registered
    leafButtonContainers,   \* Map<WorkspaceLeaf, HTMLElement>: leaf -> element id
    elems,                  \* container elements: id -> element or NoElem
    styleEl,                \* this.styleEl
    headStyles,             \* plugin style nodes attached to document.head
    timer,                  \* debounce timer of handleLayoutChange: Idle or ms left
    saves,                  \* pending saveData promises of saveSettings calls
    last,                   \* the handler or host change that acted last
    burst,                  \* the notifications since the last run, kept when the debounce is observed
    hexColor,               \* the argument of a getContrastColor call
    iconColor,              \* what the call returned, "none" before it
    scroll,                 \* the last scroll request scrollToPosition made to a view
    commands,               \* ids of the commands registered with the host
    settingTab,             \* the settings tab is registered with the host
    loaded,                 \* what loadData returned, kept when the load is observed
    overlap,                \* the progress of two overlapping saveSettings calls, when observed
    previewContainer,       \* the settings tab's live preview: what updatePreviewButtons rendered
    legacy                  \* the legacy variant of the plugin (src/unnamed/part_001), when installed

\* The variables of the current plugin and its host.
mainVars == << phase, settings, leaves, activeLeaf, subscribed, leafButtonContainers,
               elems, styleEl, headStyles, timer, saves, last, burst, hexColor, iconColor,
               scroll, commands, settingTab, loaded, overlap, previewContainer >>

vars == << phase, settings, leaves, activeLeaf, subscribed, leafButtonContainers,
           elems, styleEl, headStyles, timer, saves, last, burst, hexColor, iconColor,
           scroll, commands, settingTab, loaded, overlap, previewContainer, legacy >>

\* ---------------------------------------------------------------- settings
DEFAULT_SETTINGS ==
    [ showScrollTopButton |-> TRUE,
      showScrollBottomButton |-> TRUE,
      buttonSize |-> "medium",
      buttonColor |-> "#666666",
      useCustomColor |-> FALSE,
      animationSpeed |-> 300,
      useAnimations |-> TRUE,
      invertButtonOrder |-> FALSE,
      buttonSpacing |-> 12,
      horizontalPadding |-> 20,
      verticalPadding |-> 40 ]

\* Mutant: a default overwrites the persisted value of its key.
ObjectAssign_defaultsWin(defaults, data) ==
    [ k \in (DOMAIN defaults) \cup (DOMAIN data) |->
        IF k \in DOMAIN defaults THEN defaults[k] ELSE data[k] ]

\* Object.assign({}, DEFAULT_SETTINGS, data): later sources overwrite earlier keys.
ObjectAssign(defaults, data) ==
    [ k \in (DOMAIN defaults) \cup (DOMAIN data) |->
        IF k \in DOMAIN data THEN data[k] ELSE defaults[k] ]

loadSettings(data) == ObjectAssign(DEFAULT_SETTINGS, data)

\* A value other than the default for every key, as data.json may hold it.
PersistedValues ==
    [ showScrollTopButton |-> FALSE,
      showScrollBottomButton |-> FALSE,
      buttonSize |-> "large",
      buttonColor |-> "#DA3AF8",
      useCustomColor |-> TRUE,
      animationSpeed |-> 500,
      useAnimations |-> FALSE,
      invertButtonOrder |-> TRUE,
      buttonSpacing |-> 20,
      horizontalPadding |-> 40,
      verticalPadding |-> 60 ]

\* Persisted blobs holding every subset of the settings keys.
SubsetBlobs ==
    { [ k \in K |-> PersistedValues[k] ] : K \in SUBSET (DOMAIN DEFAULT_SETTINGS) }

\* Settings-form edits of a slider, a dropdown and a toggle, each as the
\* field it sets and the value the control hands to onChange.
FormEdits ==
    { [ horizontalPadding |-> 20 ], [ horizontalPadding |-> 40 ],
      [ buttonSize |-> "small" ], [ buttonSize |-> "medium" ],
      [ showScrollTopButton |-> TRUE ], [ showScrollTopButton |-> FALSE ] }

\* Edits made in quick succession: two fields the overlays show and one the
\* style text shows.
OverlapEdits ==
    { [ invertButtonOrder |-> TRUE ], [ invertButtonOrder |-> FALSE ],
      [ buttonSize |-> "small" ], [ buttonSize |-> "medium" ],
      [ horizontalPadding |-> 20 ], [ horizontalPadding |-> 40 ] }

FormKeys == UNION { DOMAIN in : in \in FormEdits }

\* Persisted blobs loadData may return at activation (any subset of the keys).
PersistedBlobs ==
    { << >>,
      [ invertButtonOrder |-> TRUE ] }

\* Persisted blobs holding every combination of the three button flags.
FlagBlobs ==
    { [ showScrollTopButton |-> t, showScrollBottomButton |-> b, invertButtonOrder |-> i ] :
        t \in BOOLEAN, b \in BOOLEAN, i \in BOOLEAN }

\* Persisted blobs: none, and one with animations off and a slower speed.
AnimationBlobs ==
    { << >>,
      [ useAnimations |-> FALSE, animationSpeed |-> 500 ] }

\* Settings-form mutations offered to the lifecycle specification.
FormInputs ==
    { << "invertButtonOrder", TRUE >>, << "invertButtonOrder", FALSE >> }

\* ------------------------------------------------------------ host workspace
\* A pane handle that is not open and that nothing refers to.
ClosedLeaf == [ open |-> FALSE, md |-> FALSE, content |-> FALSE, view |-> 1 ]

\* app.workspace.getLeavesOfType('markdown')
getLeavesOfType(lv) == { l \in Leaves : lv[l].open /\ lv[l].md }

\* leaf.view instanceof MarkdownView
IsMarkdownView(l) == leaves[l].md

\* view.containerEl.querySelector('.view-content') finds an element
HasViewContent(l) == leaves[l].content

MinOf(S) == CHOOSE x \in S : \A y \in S : x <= y

\* The ids of the two commands onload registers.
CommandIds == { "scroll-to-top", "scroll-to-bottom" }

\* null in place of a MarkdownView
NoView == [ pane |-> NoLeaf, view |-> 0 ]

\* No request made to a view: the call returned without scrolling.
NoRequest ==
    [ api |-> "none", target |-> NoView, line |-> 0, center |-> FALSE,
      top |-> 0, behavior |-> "none" ]

\* No scrollToPosition call has been made.
NoScroll ==
    [ by |-> "none", position |-> "none", given |-> NoView, mode |-> "none",
      lineCount |-> 0, previewEl |-> FALSE, scrollHeight |-> 0, request |-> NoRequest ]

\* --------------------------------------------------------------- DOM heap
NoElem == [ attached |-> FALSE, pane |-> NoLeaf, view |-> 0,
            visible |-> FALSE, hidden |-> FALSE, buttons |-> << >> ]

\* The handlers run on a heap h: the Map, the container elements, and the
\* numbers of appendChild and remove calls the running handler has made.
Heap == [ map |-> leafButtonContainers, elems |-> elems, appended |-> 0, removed |-> 0 ]

Keys(map) == { l \in Leaves : map[l] # NoEntry }

\* document.createElement('div'): an element id nothing refers to.
FreshElem(h, l) ==
    IF h.elems[l] = NoElem THEN l ELSE l + NumLeaves

\* An element that is neither attached nor held by the Map is garbage.
Collect(h) ==
    [ h EXCEPT !.elems =
        [ e \in ElemIds |->
            IF h.elems[e].attached \/ (\E l \in Leaves : h.map[l] = e)
            THEN h.elems[e] ELSE NoElem ] ]

\* container.toggleClass(cls, on) for the two visibility classes
toggleVisibility(h, e, on) ==
    [ h EXCEPT !.elems[e].visible = on, !.elems[e].hidden = ~on ]

\* ---------------------------------------------------------------- scrolling
\* getActiveMarkdownView: the view of the active leaf when it is a
\* MarkdownView, null otherwise. A view is named by its pane and instance.
getActiveMarkdownView ==
    IF activeLeaf # NoLeaf /\ IsMarkdownView(activeLeaf)
    THEN [ pane |-> activeLeaf, view |-> leaves[activeLeaf].view ]
    ELSE NoView

\* What a call may read from the view it is given: getMode(), and then either
\* editor.lineCount() or the '.markdown-preview-view' element and its
\* scrollHeight. The fields a call does not read are left at their NoScroll
\* values.
Docs ==
    { [ mode |-> "source", lineCount |-> n, previewEl |-> FALSE, scrollHeight |-> 0 ] :
        n \in 1..MaxLines }
    \cup { [ mode |-> "preview", lineCount |-> 0, previewEl |-> TRUE, scrollHeight |-> t ] :
              t \in 0..MaxScrollHeight }
    \cup { [ mode |-> "preview", lineCount |-> 0, previewEl |-> FALSE, scrollHeight |-> 0 ] }

\* Mutant: 'bottom' asks for line lineCount, one past the last line.
scrollToPosition_pastLastLine(position, view, doc, s) ==
    IF view = NoView THEN NoRequest
    ELSE IF doc.mode = "source"
    THEN [ api |-> "scrollIntoView", target |-> view,
           line |-> IF position = "top" THEN 0 ELSE doc.lineCount,
           center |-> TRUE, top |-> 0, behavior |-> "none" ]
    ELSE IF doc.previewEl
    THEN [ api |-> "scrollTo", target |-> view, line |-> 0, center |-> FALSE,
           top |-> IF position = "top" THEN 0 ELSE doc.scrollHeight,
           behavior |-> IF s.useAnimations THEN "smooth" ELSE "auto" ]
    ELSE NoRequest

\* Mutant: a null view falls back to the view of the first open markdown pane.
scrollToPosition_fallsBack(position, view, doc, s) ==
    LET md == getLeavesOfType(leaves)
        v  == IF view = NoView /\ md # {}
              THEN [ pane |-> MinOf(md), view |-> leaves[MinOf(md)].view ] ELSE view
    IN  IF v = NoView THEN NoRequest
        ELSE IF doc.mode = "source"
        THEN [ api |-> "scrollIntoView", target |-> v,
               line |-> IF position = "top" THEN 0 ELSE doc.lineCount - 1,
               center |-> TRUE, top |-> 0, behavior |-> "none" ]
        ELSE IF doc.previewEl
        THEN [ api |-> "scrollTo", target |-> v, line |-> 0, center |-> FALSE,
               top |-> IF position = "top" THEN 0 ELSE doc.scrollHeight,
               behavior |-> IF s.useAnimations THEN "smooth" ELSE "auto" ]
        ELSE NoRequest

\* scrollToPosition(position, view): the request it makes, editor.scrollIntoView
\* in source mode and previewEl.scrollTo otherwise.
scrollToPosition(position, view, doc, s) ==
    IF view = NoView THEN NoRequest
    ELSE IF doc.mode = "source"
    THEN [ api |-> "scrollIntoView", target |-> view,
           line |-> IF position = "top" THEN 0 ELSE doc.lineCount - 1,
           center |-> TRUE, top |-> 0, behavior |-> "none" ]
    ELSE IF doc.previewEl
    THEN [ api |-> "scrollTo", target |-> view, line |-> 0, center |-> FALSE,
           top |-> IF position = "top" THEN 0 ELSE doc.scrollHeight,
           behavior |-> IF s.useAnimations THEN "smooth" ELSE "auto" ]
    ELSE NoRequest

\* The call as the model records it: who made it, its arguments, what it read
\* from the view, and the request it made.
ScrollCall(by, position, view, doc) ==
    LET read == IF view = NoView
                THEN [ mode |-> "none", lineCount |-> 0, previewEl |-> FALSE, scrollHeight |-> 0 ]
                ELSE doc
    IN  [ by |-> by, position |-> position, given |-> view, mode |-> read.mode,
          lineCount |-> read.lineCount, previewEl |-> read.previewEl,
          scrollHeight |-> read.scrollHeight,
          request |-> scrollToPosition(position, view, doc, settings) ]

\* ------------------------------------------------------- contrast resolver
\* Strings are sequences of one-character strings.
UpperHex == << "0", "1", "2", "3", "4", "5", "6", "7", "8", "9",
               "A", "B", "C", "D", "E", "F" >>
LowerHex == << "0", "1", "2", "3", "4", "5", "6", "7", "8", "9",
               "a", "b", "c", "d", "e", "f" >>

IsHexDigit(c) == \E i \in 1..16 : UpperHex[i] = c \/ LowerHex[i] = c

HexVal(c) == (CHOOSE i \in 1..16 : UpperHex[i] = c \/ LowerHex[i] = c) - 1

\* String.prototype.substring(from, to): both ends clamped to the length.
substring(str, from, to) ==
    LET lo == IF from < Len(str) THEN from ELSE Len(str)
        hi == IF to < Len(str) THEN to ELSE Len(str)
    IN  SubSeq(str, lo + 1, hi)

\* StrWhiteSpaceChar of ECMAScript: WhiteSpace (TAB, VT, FF, ZWNBSP and the
\* space separators of Unicode) and LineTerminator (LF, CR, LS, PS). A
\* character is a string of one character; the code points from U+2000 on,
\* which a string literal here cannot hold, are written by their names.
StrWhiteSpaceChar ==
    { "\t", "", "\f", "﻿", " ", " ", " ",
      "U+2000", "U+2001", "U+2002", "U+2003", "U+2004", "U+2005", "U+2006",
      "U+2007", "U+2008", "U+2009", "U+200A", "U+202F", "U+205F", "U+3000",
      "\n", "\r", "U+2028", "U+2029" }

\* The string without its leading white space, as parseInt reads it.
RECURSIVE TrimStart(_)
TrimStart(str) ==
    IF str # << >> /\ Head(str) \in StrWhiteSpaceChar THEN TrimStart(Tail(str)) ELSE str

\* The longest prefix of hex digits, read as a number; NaN when it is empty.
RECURSIVE HexPrefix(_, _, _)
HexPrefix(str, acc, any) ==
    IF str # << >> /\ IsHexDigit(Head(str))
    THEN HexPrefix(Tail(str), 16 * acc + HexVal(Head(str)), TRUE)
    ELSE [ nan |-> ~any, val |-> acc ]

\* parseInt(str, 16): leading white space skipped, an optional sign, an
\* optional 0x or 0X, then the longest prefix of hex digits.
parseInt(str) ==
    LET s1  == TrimStart(str)
        neg == s1 # << >> /\ Head(s1) = "-"
        s2  == IF s1 # << >> /\ Head(s1) \in { "+", "-" } THEN Tail(s1) ELSE s1
        s3  == IF Len(s2) >= 2 /\ s2[1] = "0" /\ s2[2] \in { "x", "X" }
               THEN SubSeq(s2, 3, Len(s2)) ELSE s2
        n   == HexPrefix(s3, 0, FALSE)
    IN  [ nan |-> n.nan, val |-> IF neg THEN 0 - n.val ELSE n.val ]

\* IEEE 754 binary64 arithmetic (round to nearest, ties to even) on the values
\* the luminance formula meets. A magnitude is a natural number held as
\* NumLimbs limbs of LimbBits bits, least significant first, counting units of
\* 2^-56 (2^-68 for the quotient); a value is [nan, neg, mag].
LimbBits == 16
NumLimbs == 5
MantissaBits == 53
LimbBase == 2 ^ LimbBits

RECURSIVE MulFrom(_, _, _, _)
MulFrom(a, k, i, carry) ==
    IF i > NumLimbs THEN << >>
    ELSE LET v == a[i] * k + carry
         IN  << v % LimbBase >> \o MulFrom(a, k, i + 1, v \div LimbBase)

BigMulSmall(a, k) == MulFrom(a, k, 1, 0)

RECURSIVE AddFrom(_, _, _, _)
AddFrom(a, b, i, carry) ==
    IF i > NumLimbs THEN << >>
    ELSE LET v == a[i] + b[i] + carry
         IN  << v % LimbBase >> \o AddFrom(a, b, i + 1, v \div LimbBase)

BigAdd(a, b) == AddFrom(a, b, 1, 0)

RECURSIVE SubFrom(_, _, _, _)
SubFrom(a, b, i, borrow) ==
    IF i > NumLimbs THEN << >>
    ELSE LET v == a[i] - b[i] - borrow
         IN  IF v < 0 THEN << v + LimbBase >> \o SubFrom(a, b, i + 1, 1)
             ELSE << v >> \o SubFrom(a, b, i + 1, 0)

BigSub(a, b) == SubFrom(a, b, 1, 0)

RECURSIVE LessFrom(_, _, _)
LessFrom(a, b, i) ==
    IF i = 0 THEN FALSE
    ELSE IF a[i] # b[i] THEN a[i] < b[i]
    ELSE LessFrom(a, b, i - 1)

BigLess(a, b) == LessFrom(a, b, NumLimbs)

RECURSIVE DivFrom(_, _, _, _)
DivFrom(a, d, i, rem) ==
    IF i = 0 THEN [ quot |-> << >>, rem |-> rem ]
    ELSE LET v    == rem * LimbBase + a[i]
             rest == DivFrom(a, d, i - 1, v % d)
         IN  [ quot |-> rest.quot \o << v \div d >>, rem |-> rest.rem ]

BigDivSmall(a, d) == DivFrom(a, d, NumLimbs, 0)

RECURSIVE SmallBitLen(_)
SmallBitLen(n) == IF n = 0 THEN 0 ELSE 1 + SmallBitLen(n \div 2)

RECURSIVE TopLimb(_, _)
TopLimb(a, i) == IF i = 0 THEN 0 ELSE IF a[i] # 0 THEN i ELSE TopLimb(a, i - 1)

BitLen(a) ==
    LET t == TopLimb(a, NumLimbs)
    IN  IF t = 0 THEN 0 ELSE LimbBits * (t - 1) + SmallBitLen(a[t])

\* The nearest magnitude of MantissaBits significant bits, ties to even;
\* sticky tells that the exact value lies above a.
RoundToDouble(a, sticky) ==
    LET n == BitLen(a)
    IN  IF n <= MantissaBits THEN a
        ELSE LET d    == 2 ^ (n - MantissaBits)
                 qr   == BigDivSmall(a, d)
                 half == d \div 2
                 up   == \/ qr.rem > half
                         \/ qr.rem = half /\ (sticky \/ qr.quot[1] % 2 = 1)
                 q    == IF up THEN BigAdd(qr.quot, << 1, 0, 0, 0, 0 >>) ELSE qr.quot
             IN  BigMulSmall(q, d)

NaN == [ nan |-> TRUE, neg |-> FALSE, mag |-> << 0, 0, 0, 0, 0 >> ]

\* The doubles nearest to 0.299, 0.587 and 0.114, in units of 2^-56.
Weight299 == << 1572, 38273, 35651, 76, 0 >>
Weight587 == << 33552, 51904, 17825, 150, 0 >>
Weight114 == << 30409, 40894, 12058, 29, 0 >>

\* weight * n for a parsed number n
Times(weight, n) ==
    IF n.nan THEN NaN
    ELSE [ nan |-> FALSE, neg |-> n.val < 0,
           mag |-> RoundToDouble(BigMulSmall(weight, IF n.val < 0 THEN 0 - n.val ELSE n.val),
                                 FALSE) ]

\* x + y
Plus(x, y) ==
    IF x.nan \/ y.nan THEN NaN
    ELSE IF x.neg = y.neg
    THEN [ nan |-> FALSE, neg |-> x.neg, mag |-> RoundToDouble(BigAdd(x.mag, y.mag), FALSE) ]
    ELSE IF BigLess(x.mag, y.mag)
    THEN [ nan |-> FALSE, neg |-> y.neg, mag |-> RoundToDouble(BigSub(y.mag, x.mag), FALSE) ]
    ELSE [ nan |-> FALSE, neg |-> x.neg, mag |-> RoundToDouble(BigSub(x.mag, y.mag), FALSE) ]

\* x / 255, in units of 2^-68
Over255(x) ==
    IF x.nan THEN NaN
    ELSE LET qr == BigDivSmall(BigMulSmall(x.mag, 4096), 255)
         IN  [ nan |-> FALSE, neg |-> x.neg, mag |-> RoundToDouble(qr.quot, qr.rem # 0) ]

\* x > 0.5, for x in units of 2^-68
AboveHalf(x) == ~x.nan /\ ~x.neg /\ BigLess(<< 0, 0, 0, 0, 8 >>, x.mag)

\* Mutant: the red and green weights are exchanged.
Luminance_swapsWeights(r, g, b) ==
    Over255(Plus(Plus(Times(Weight587, r), Times(Weight299, g)), Times(Weight114, b)))

\* (0.299 * r + 0.587 * g + 0.114 * b) / 255
Luminance(r, g, b) ==
    Over255(Plus(Plus(Times(Weight299, r), Times(Weight587, g)), Times(Weight114, b)))

\* The parsed channels of a string of four or more characters.
Channels(hexColorArg) ==
    LET full == IF Len(hexColorArg) = 4
                THEN << "#", hexColorArg[2], hexColorArg[2], hexColorArg[3],
                        hexColorArg[3], hexColorArg[4], hexColorArg[4] >>
                ELSE hexColorArg
    IN  [ r |-> parseInt(substring(full, 1, 3)),
          g |-> parseInt(substring(full, 3, 5)),
          b |-> parseInt(substring(full, 5, 7)) ]

\* Mutant: a luminance of exactly 0.5 gives black.
getContrastColor_tieToBlack(hexColorArg) ==
    IF Len(hexColorArg) < 4 THEN "#000000"
    ELSE LET c   == Channels(hexColorArg)
             lum == Luminance(c.r, c.g, c.b)
         IN  IF AboveHalf(lum) \/ (~lum.nan /\ ~lum.neg /\ lum.mag = << 0, 0, 0, 0, 8 >>)
             THEN "#000000" ELSE "#FFFFFF"

\* Mutant: no length check before the parse.
getContrastColor_noLengthCheck(hexColorArg) ==
    LET c == [ r |-> parseInt(substring(hexColorArg, 1, 3)),
               g |-> parseInt(substring(hexColorArg, 3, 5)),
               b |-> parseInt(substring(hexColorArg, 5, 7)) ]
    IN  IF AboveHalf(Luminance(c.r, c.g, c.b)) THEN "#000000" ELSE "#FFFFFF"

\* Mutant: the shorthand nibbles are padded with 0 instead of duplicated.
getContrastColor_padsShorthand(hexColorArg) ==
    IF Len(hexColorArg) < 4 THEN "#000000"
    ELSE LET full == IF Len(hexColorArg) = 4
                     THEN << "#", hexColorArg[2], "0", hexColorArg[3], "0",
                             hexColorArg[4], "0" >>
                     ELSE hexColorArg
             r == parseInt(substring(full, 1, 3))
             g == parseInt(substring(full, 3, 5))
             b == parseInt(substring(full, 5, 7))
         IN  IF AboveHalf(Luminance(r, g, b)) THEN "#000000" ELSE "#FFFFFF"

getContrastColor(hexColorArg) ==
    IF Len(hexColorArg) < 4 THEN "#000000"
    ELSE LET full == IF Len(hexColorArg) = 4
                     THEN << "#", hexColorArg[2], hexColorArg[2], hexColorArg[3],
                             hexColorArg[3], hexColorArg[4], hexColorArg[4] >>
                     ELSE hexColorArg
             r == parseInt(substring(full, 1, 3))
             g == parseInt(substring(full, 3, 5))
             b == parseInt(substring(full, 5, 7))
         IN  IF AboveHalf(Luminance(r, g, b)) THEN "#000000" ELSE "#FFFFFF"

\* ------------------------------------------------------- overlay factory
RECURSIVE InsertByOrder(_, _)
InsertByOrder(sorted, b) ==
    IF sorted = << >> THEN << b >>
    ELSE IF b.order < Head(sorted).order THEN << b >> \o sorted
    ELSE << Head(sorted) >> \o InsertByOrder(Tail(sorted), b)

\* buttons.sort((a, b) => a.order - b.order): stable, ascending
RECURSIVE SortByOrder(_)
SortByOrder(bs) ==
    IF bs = << >> THEN << >>
    ELSE InsertByOrder(SortByOrder(SubSeq(bs, 1, Len(bs) - 1)), bs[Len(bs)])

\* Mutant: the sort keys do not depend on invertButtonOrder.
ButtonDescriptors_ignoresInvert(s, view) ==
    (IF s.showScrollTopButton
     THEN << [ icon |-> "scrollTop", tooltip |-> "Scroll to Top",
               action |-> "top", view |-> view, order |-> 0 ] >>
     ELSE << >>)
    \o
    (IF s.showScrollBottomButton
     THEN << [ icon |-> "scrollBottom", tooltip |-> "Scroll to Bottom",
               action |-> "bottom", view |-> view, order |-> 1 ] >>
     ELSE << >>)

\* The button descriptors of createFloatingButtons, in push order.
ButtonDescriptors(s, view) ==
    (IF s.showScrollTopButton
     THEN << [ icon |-> "scrollTop", tooltip |-> "Scroll to Top",
               action |-> "top", view |-> view,
               order |-> IF s.invertButtonOrder THEN 1 ELSE 0 ] >>
     ELSE << >>)
    \o
    (IF s.showScrollBottomButton
     THEN << [ icon |-> "scrollBottom", tooltip |-> "Scroll to Bottom",
               action |-> "bottom", view |-> view,
               order |-> IF s.invertButtonOrder THEN 0 ELSE 1 ] >>
     ELSE << >>)

\* createButton: the element appended for one descriptor
createButton(s, b) ==
    [ icon |-> b.icon, tooltip |-> b.tooltip, action |-> b.action, view |-> b.view,
      size |-> s.buttonSize, animated |-> s.useAnimations, custom |-> s.useCustomColor ]

\* The children createFloatingButtons leaves in the container.
OverlayButtons(s, view) ==
    LET sorted == SortByOrder(ButtonDescriptors(s, view))
    IN  [ i \in 1..Len(sorted) |-> createButton(s, sorted[i]) ]

\* Mutant: the buttons are built from the settings as they were constructed.
createFloatingButtons_usesDefaults(h, e, view) ==
    [ h EXCEPT !.elems[e].buttons = OverlayButtons(DEFAULT_SETTINGS, view) ]

createFloatingButtons(h, e, view) ==
    [ h EXCEPT !.elems[e].buttons = OverlayButtons(settings, view) ]

\* ------------------------------------------------- pane lifecycle tracker
\* Mutant: a new container is always marked hidden.
updateSingleLeafVisibility_alwaysHidden(h, l) ==
    IF h.map[l] # NoEntry
    THEN toggleVisibility(h, h.map[l], FALSE)
    ELSE h

updateSingleLeafVisibility(h, l) ==
    IF h.map[l] # NoEntry
    THEN toggleVisibility(h, h.map[l], activeLeaf = l)
    ELSE h

\* Mutant: the entry is recorded before the '.view-content' lookup.
addButtonsToLeaf_tracksBeforeLookup(h, l) ==
    IF ~IsMarkdownView(l) \/ h.map[l] # NoEntry THEN h
    ELSE LET e  == FreshElem(h, l)
             h1 == [ h EXCEPT !.elems[e] =
                        [ attached |-> HasViewContent(l), pane |-> l, view |-> leaves[l].view,
                          visible |-> FALSE, hidden |-> FALSE, buttons |-> << >> ],
                      !.appended = IF HasViewContent(l) THEN @ + 1 ELSE @,
                      !.map[l] = e ]
         IN  IF ~HasViewContent(l) THEN h1
             ELSE updateSingleLeafVisibility(
                      createFloatingButtons(h1, e, leaves[l].view), l)

\* Mutant: a pane whose overlay would hold no button is skipped.
addButtonsToLeaf_skipsEmpty(h, l) ==
    IF ~IsMarkdownView(l) \/ h.map[l] # NoEntry THEN h
    ELSE IF ~HasViewContent(l) THEN h
    ELSE IF ButtonDescriptors(settings, leaves[l].view) = << >> THEN h
    ELSE LET e  == FreshElem(h, l)
             h1 == [ h EXCEPT !.elems[e] =
                        [ attached |-> TRUE, pane |-> l, view |-> leaves[l].view,
                          visible |-> FALSE, hidden |-> FALSE, buttons |-> << >> ],
                      !.appended = @ + 1 ]
             h2 == [ h1 EXCEPT !.map[l] = e ]
             h3 == createFloatingButtons(h2, e, leaves[l].view)
         IN  updateSingleLeafVisibility(h3, l)

addButtonsToLeaf(h, l) ==
    IF ~IsMarkdownView(l) \/ h.map[l] # NoEntry THEN h
    ELSE IF ~HasViewContent(l) THEN h
    ELSE LET e  == FreshElem(h, l)
             h1 == [ h EXCEPT !.elems[e] =
                        [ attached |-> TRUE, pane |-> l, view |-> leaves[l].view,
                          visible |-> FALSE, hidden |-> FALSE, buttons |-> << >> ],
                      !.appended = @ + 1 ]
             h2 == [ h1 EXCEPT !.map[l] = e ]
             h3 == createFloatingButtons(h2, e, leaves[l].view)
         IN  updateSingleLeafVisibility(h3, l)

\* Mutant: the entry is deleted but the container is left in the DOM.
removeButtonsFromLeaf_leavesNode(h, l) ==
    IF h.map[l] # NoEntry
    THEN Collect([ h EXCEPT !.map[l] = NoEntry ])
    ELSE h

removeButtonsFromLeaf(h, l) ==
    IF h.map[l] # NoEntry
    THEN LET e == h.map[l]
         IN  Collect([ h EXCEPT !.elems[e].attached = FALSE,
                                !.removed = IF h.elems[e].attached THEN @ + 1 ELSE @,
                                !.map[l] = NoEntry ])
    ELSE h

RECURSIVE initializeEach(_, _)
initializeEach(h, todo) ==
    IF todo = {} THEN h
    ELSE LET l == MinOf(todo)
         IN  initializeEach(addButtonsToLeaf(h, l), todo \ {l})

\* Mutant: the layout-ready callback subscribes without building overlays.
initializeAllButtons_skips(h) == h

initializeAllButtons(h) == initializeEach(h, getLeavesOfType(leaves))

RECURSIVE updateEach(_, _)
updateEach(h, todo) ==
    IF todo = {} THEN h
    ELSE LET l == MinOf(todo)
         IN  updateEach(addButtonsToLeaf(removeButtonsFromLeaf(h, l), l), todo \ {l})

\* Mutant: the old containers are not removed before the re-add.
updateAllButtons_noRemove(h) == initializeEach(h, getLeavesOfType(leaves))

updateAllButtons(h) == updateEach(h, getLeavesOfType(leaves))

RECURSIVE removeEach(_, _)
removeEach(h, todo) ==
    IF todo = {} THEN h
    ELSE LET l == MinOf(todo)
         IN  removeEach(removeButtonsFromLeaf(h, l), todo \ {l})

\* Mutant: the removal loop drops every known pane, not only the closed ones.
handleLayoutChange_removesKnown(h) ==
    LET currentLeaves == getLeavesOfType(leaves)
        knownLeaves   == Keys(h.map)
        added         == initializeEach(h, currentLeaves \ knownLeaves)
    IN  removeEach(added, knownLeaves)

\* Mutant: closed panes are never removed.
handleLayoutChange_keepsClosed(h) ==
    LET currentLeaves == getLeavesOfType(leaves)
        knownLeaves   == Keys(h.map)
    IN  initializeEach(h, currentLeaves \ knownLeaves)

\* The body of the debounced handleLayoutChange.
handleLayoutChange(h) ==
    LET currentLeaves == getLeavesOfType(leaves)
        knownLeaves   == Keys(h.map)
        added         == initializeEach(h, currentLeaves \ knownLeaves)
    IN  removeEach(added, knownLeaves \ currentLeaves)

RECURSIVE focusEach(_, _, _)
focusEach(h, todo, active) ==
    IF todo = {} THEN h
    ELSE LET l  == MinOf(todo)
             h1 == IF IsMarkdownView(l)
                   THEN toggleVisibility(h, h.map[l], l = active)
                   ELSE h
         IN  focusEach(h1, todo \ {l}, active)

\* Mutant: only the newly active pane's container is touched.
handleActiveLeafChange_showsOnly(h, active) ==
    focusEach(h, Keys(h.map) \cap { active }, active)

\* Mutant: the containers of the panes that lost focus are removed.
handleActiveLeafChange_removesHidden(h, active) ==
    removeEach(focusEach(h, Keys(h.map), active), Keys(h.map) \ { active })

handleActiveLeafChange(h, active) == focusEach(h, Keys(h.map), active)

\* Mutant: the Map is cleared without removing the containers.
unloadContainers_clearsOnly(h) ==
    [ h EXCEPT !.map = [ l \in Leaves |-> NoEntry ] ]

\* onunload, the overlay part: every container removed, the Map cleared
unloadContainers(h) == removeEach(h, Keys(h.map))

\* ------------------------------------------------- stylesheet synchronizer
\* The text updateStyle writes: the four interpolated values, in the order of
\* the template (px, px, px, ms); the rest of the template is static.
StyleText(s) ==
    << s.horizontalPadding, s.verticalPadding, s.buttonSpacing, s.animationSpeed >>

NullStyle == [ exists |-> FALSE, attached |-> FALSE, text |-> << >> ]

\* Mutant: a missing style node is created instead of the early return.
updateStyle_createsNode(el, s) ==
    [ exists |-> TRUE, attached |-> TRUE, text |-> StyleText(s) ]

\* Mutant: the new rules are added after the text the node already holds.
updateStyle_appends(el, s) ==
    IF ~el.exists THEN el ELSE [ el EXCEPT !.text = @ \o StyleText(s) ]

updateStyle(el, s) ==
    IF ~el.exists THEN el ELSE [ el EXCEPT !.text = StyleText(s) ]

\* addStyle: the old node removed, a new one appended to document.head
addStyle(el, s) ==
    updateStyle([ exists |-> TRUE, attached |-> TRUE, text |-> << >> ], s)

\* ---------------------------------------------------- settings tab preview
\* this.previewContainer before display() has created it.
NoPreview == [ exists |-> FALSE, text |-> "", gap |-> 0, buttons |-> << >> ]

\* The three toggles of the settings tab that decide which buttons there are.
FlagEdits ==
    { [ showScrollTopButton |-> v ] : v \in BOOLEAN } \cup
    { [ showScrollBottomButton |-> v ] : v \in BOOLEAN } \cup
    { [ invertButtonOrder |-> v ] : v \in BOOLEAN }

\* Mutant: the preview's sort keys do not depend on invertButtonOrder.
PreviewDescriptors_ignoresInvert(s) ==
    (IF s.showScrollTopButton
     THEN << [ icon |-> "scrollTop", tooltip |-> "Scroll to Top (Preview)", order |-> 0 ] >>
     ELSE << >>)
    \o
    (IF s.showScrollBottomButton
     THEN << [ icon |-> "scrollBottom", tooltip |-> "Scroll to Bottom (Preview)", order |-> 1 ] >>
     ELSE << >>)

\* The button descriptors of updatePreviewButtons, in push order.
PreviewDescriptors(s) ==
    (IF s.showScrollTopButton
     THEN << [ icon |-> "scrollTop", tooltip |-> "Scroll to Top (Preview)",
               order |-> IF s.invertButtonOrder THEN 1 ELSE 0 ] >>
     ELSE << >>)
    \o
    (IF s.showScrollBottomButton
     THEN << [ icon |-> "scrollBottom", tooltip |-> "Scroll to Bottom (Preview)",
               order |-> IF s.invertButtonOrder THEN 0 ELSE 1 ] >>
     ELSE << >>)

\* updatePreviewButtons: the container is emptied and filled again, with a
\* span of text when no button is enabled, else with a wrapper holding the
\* buttons in sorted order. The colours, which depend on the browser's CSS
\* validation of buttonColor, are left out.
updatePreviewButtons(p, s) ==
    IF ~p.exists THEN p
    ELSE LET buttons == PreviewDescriptors(s)
             sorted  == SortByOrder(buttons)
         IN  IF Len(buttons) = 0
             THEN [ exists |-> TRUE, text |-> "No buttons enabled", gap |-> 0,
                    buttons |-> << >> ]
             ELSE [ exists |-> TRUE, text |-> "", gap |-> s.buttonSpacing,
                    buttons |-> [ i \in 1..Len(sorted) |->
                                    [ icon |-> sorted[i].icon, tooltip |-> sorted[i].tooltip,
                                      size |-> s.buttonSize ] ] ]

\* display(): the preview container is created anew and rendered last.
display(s) == updatePreviewButtons([ NoPreview EXCEPT !.exists = TRUE ], s)

\* ----------------------------------------------------------- legacy variant
\* src/unnamed/part_001: an earlier version of the plugin, with one set of
\* floating buttons appended to document.body. Its state is the record
\* `legacy`: the plugin's fields and the DOM nodes it owns.
LEGACY_DEFAULT_SETTINGS ==
    [ showScrollTopButton |-> TRUE,
      showScrollBottomButton |-> TRUE,
      showScrollUpButton |-> FALSE,
      showScrollDownButton |-> FALSE,
      buttonPosition |-> "floating",
      scrollStep |-> 10,
      buttonSize |-> "medium",
      buttonColor |-> "#666666",
      useCustomColor |-> FALSE,
      animationSpeed |-> 300,
      useAnimations |-> TRUE,
      autoHide |-> FALSE,
      autoHideDelay |-> 2000,
      horizontalPadding |-> 16,
      verticalPadding |-> 40 ]

ButtonIds == 1..MaxButtons

\* The ids of the four commands the legacy onload registers.
LegacyCommandIds == { "scroll-to-top", "scroll-to-bottom", "scroll-up", "scroll-down" }

\* No element: an id document.createElement has not handed out, or whose
\* element nothing refers to any more.
NoButton ==
    [ exists |-> FALSE, attached |-> FALSE, action |-> "none", bottom |-> 0, right |-> 0,
      size |-> "none", opacity |-> "", autoHide |-> FALSE, timeout |-> Idle,
      idle |-> 0, armed |-> 0 ]

\* No scrollToPosition or scrollPartial call has been made.
NoLegacyScroll ==
    [ by |-> "none", move |-> "none", active |-> FALSE, mode |-> "none", lineCount |-> 0,
      cursor |-> 0, previewEl |-> FALSE, scrollHeight |-> 0, step |-> 0,
      api |-> "none", line |-> 0, top |-> 0 ]

\* plugin.settings before loadSettings has assigned it: the field is declared
\* without an initializer.
Undefined == "undefined"

\* The plugin object after construction (floatingButtons = [], settings not
\* yet assigned).
LegacyConstructed ==
    [ phase |-> "constructed",
      settings |-> Undefined,
      floatingButtons |-> << >>,
      nodes |-> [ b \in ButtonIds |-> NoButton ],
      headStyles |-> 0,
      ribbonIcons |-> 0,
      commands |-> {},
      settingTab |-> FALSE,
      saves |-> 0,
      calls |-> 0,
      scroll |-> NoLegacyScroll,
      last |-> [ op |-> "init", button |-> 0 ] ]

NoLegacy == [ phase |-> "absent" ]

\* The legacy variant is not the plugin that is installed.
LegacyAbsent == legacy = NoLegacy

FreeButtons(L) == { b \in ButtonIds : ~L.nodes[b].exists }

\* A removed button is garbage unless setupAutoHide left a document listener
\* that refers to it.
CollectButtons(L) ==
    [ L EXCEPT !.nodes =
        [ b \in ButtonIds |->
            IF L.nodes[b].attached \/ L.nodes[b].autoHide THEN L.nodes[b] ELSE NoButton ] ]

removeFloatingButtons(L) ==
    CollectButtons(
        [ L EXCEPT !.nodes = [ b \in ButtonIds |->
                                 IF \E i \in 1..Len(L.floatingButtons) : L.floatingButtons[i] = b
                                 THEN [ L.nodes[b] EXCEPT !.attached = FALSE ]
                                 ELSE L.nodes[b] ],
                   !.floatingButtons = << >> ])

\* createButton of createFloatingButtons; with autoHide, setupAutoHide adds
\* the two listeners and starts no timer.
legacyCreateButton(L, action, position) ==
    LET b == MinOf(FreeButtons(L))
    IN  [ L EXCEPT !.nodes[b] =
                     [ exists |-> TRUE, attached |-> TRUE, action |-> action,
                       bottom |-> L.settings.verticalPadding + position * BUTTON_PITCH_PX,
                       right |-> L.settings.horizontalPadding,
                       size |-> L.settings.buttonSize,
                       opacity |-> "", autoHide |-> L.settings.autoHide,
                       timeout |-> Idle, idle |-> 0, armed |-> 0 ],
                 !.floatingButtons = Append(@, b) ]

\* The actions of the buttons createFloatingButtons creates, in creation order.
LegacyButtonActions(s) ==
    (IF s.showScrollTopButton THEN << "top" >> ELSE << >>) \o
    (IF s.showScrollUpButton THEN << "up" >> ELSE << >>) \o
    (IF s.showScrollDownButton THEN << "down" >> ELSE << >>) \o
    (IF s.showScrollBottomButton THEN << "bottom" >> ELSE << >>)

RECURSIVE legacyCreateEach(_, _, _)
legacyCreateEach(L, actions, position) ==
    IF actions = << >> THEN L
    ELSE legacyCreateEach(legacyCreateButton(L, Head(actions), position),
                          Tail(actions), position + 1)

\* addStyle of the legacy variant: a new style element appended to
\* document.head on every call.
legacyAddStyle(L) == [ L EXCEPT !.headStyles = @ + 1 ]

legacyCreateFloatingButtons(L) ==
    legacyAddStyle(legacyCreateEach(L, LegacyButtonActions(L.settings), 0))

createRibbonButtons(L) ==
    [ L EXCEPT !.ribbonIcons = @ + (IF L.settings.showScrollTopButton THEN 1 ELSE 0)
                                 + (IF L.settings.showScrollBottomButton THEN 1 ELSE 0) ]

initializeButtons(L) ==
    LET L1 == removeFloatingButtons(L)
    IN  IF L1.settings.buttonPosition = "floating" THEN legacyCreateFloatingButtons(L1)
        ELSE IF L1.settings.buttonPosition = "ribbon" THEN createRibbonButtons(L1)
        ELSE L1

\* Enough element ids are free for initializeButtons to run.
CanInitialize(L) ==
    L.settings.buttonPosition = "floating" =>
        Cardinality(FreeButtons(removeFloatingButtons(L))) >= Len(LegacyButtonActions(L.settings))

\* Mutant: a pending hide timer is left running when the button is shown.
showButton_keepsTimer(L, b) ==
    [ L EXCEPT !.nodes[b].opacity = "1",
               !.nodes[b].timeout = IF @ = Idle THEN L.settings.autoHideDelay ELSE @,
               !.nodes[b].idle = 0,
               !.nodes[b].armed = L.settings.autoHideDelay ]

\* showButton of setupAutoHide: the button shown, its pending timeout cleared
\* and a new one started with the delay the settings hold now. `idle` and
\* `armed` record the time since this call and the delay it passed.
showButton(L, b) ==
    [ L EXCEPT !.nodes[b].opacity = "1",
               !.nodes[b].timeout = L.settings.autoHideDelay,
               !.nodes[b].idle = 0,
               !.nodes[b].armed = L.settings.autoHideDelay ]

RECURSIVE showEach(_, _)
showEach(L, todo) ==
    IF todo = {} THEN L
    ELSE LET b == MinOf(todo)
         IN  showEach(showButton(L, b), todo \ {b})

\* The buttons whose setupAutoHide listeners exist.
AutoHideButtons(L) == { b \in ButtonIds : L.nodes[b].exists /\ L.nodes[b].autoHide }

\* The integers tried as settings.scrollStep: the values the Scroll Step slider
\* sets, setLimits(5, 30, 5), and, since loadSettings takes whatever number
\* data.json holds, every integer from -MaxScrollStep to MaxScrollStep.
ScrollSteps == { 5 * k : k \in 1..6 } \cup ((0 - MaxScrollStep)..MaxScrollStep)

\* What the host tells a scroll call about the active view: whether there is
\* an active MarkdownView, its mode, and in source mode the editor's line
\* count and cursor line, in preview mode whether '.markdown-preview-view' is
\* found and its scrollHeight.
LegacyDocs ==
    { [ active |-> FALSE, mode |-> "none", lineCount |-> 0, cursor |-> 0,
        previewEl |-> FALSE, scrollHeight |-> 0 ] } \cup
    { [ active |-> TRUE, mode |-> "source", lineCount |-> nc[1], cursor |-> nc[2],
        previewEl |-> FALSE, scrollHeight |-> 0 ] :
        nc \in { p \in (1..MaxLegacyLines) \X (0..(MaxLegacyLines - 1)) : p[2] < p[1] } } \cup
    { [ active |-> TRUE, mode |-> "preview", lineCount |-> 0, cursor |-> 0,
        previewEl |-> p, scrollHeight |-> IF p THEN MaxScrollHeight ELSE 0 ] : p \in BOOLEAN }

Max(a, b) == IF a >= b THEN a ELSE b
Min(a, b) == IF a <= b THEN a ELSE b

\* A scroll call of the legacy variant: who made it, what the host told it and
\* the request it made to the editor or the preview element, if any.
LegacyCall(by, move, doc, step, api, line, top) ==
    [ by |-> by, move |-> move, active |-> doc.active, mode |-> doc.mode,
      lineCount |-> doc.lineCount, cursor |-> doc.cursor, previewEl |-> doc.previewEl,
      scrollHeight |-> doc.scrollHeight, step |-> step,
      api |-> api, line |-> line, top |-> top ]

\* scrollToPosition of the legacy variant, on the active view.
legacyScrollToPosition(by, position, doc, s) ==
    IF ~doc.active THEN LegacyCall(by, position, doc, s.scrollStep, "none", 0, 0)
    ELSE IF doc.mode = "source"
    THEN LegacyCall(by, position, doc, s.scrollStep, "scrollIntoView",
                    IF position = "top" THEN 0 ELSE doc.lineCount - 1, 0)
    ELSE IF doc.previewEl
    THEN LegacyCall(by, position, doc, s.scrollStep, "scrollTo", 0,
                    IF position = "top" THEN 0 ELSE doc.scrollHeight)
    ELSE LegacyCall(by, position, doc, s.scrollStep, "none", 0, 0)

\* Mutant: 'down' adds the step without the upper limit.
scrollPartial_noUpperLimit(by, direction, doc, s) ==
    IF ~doc.active THEN LegacyCall(by, direction, doc, s.scrollStep, "none", 0, 0)
    ELSE IF doc.mode = "source"
    THEN LegacyCall(by, direction, doc, s.scrollStep, "scrollIntoView",
                    IF direction = "up"
                    THEN Max(0, doc.cursor - s.scrollStep)
                    ELSE doc.cursor + s.scrollStep, 0)
    ELSE IF doc.previewEl
    THEN LegacyCall(by, direction, doc, s.scrollStep, "scrollBy", 0,
                    IF direction = "up" THEN 0 - s.scrollStep * LINE_PX
                    ELSE s.scrollStep * LINE_PX)
    ELSE LegacyCall(by, direction, doc, s.scrollStep, "none", 0, 0)

\* scrollPartial, on the active view.
scrollPartial(by, direction, doc, s) ==
    IF ~doc.active THEN LegacyCall(by, direction, doc, s.scrollStep, "none", 0, 0)
    ELSE IF doc.mode = "source"
    THEN LegacyCall(by, direction, doc, s.scrollStep, "scrollIntoView",
                    IF direction = "up"
                    THEN Max(0, doc.cursor - s.scrollStep)
                    ELSE Min(doc.lineCount - 1, doc.cursor + s.scrollStep), 0)
    ELSE IF doc.previewEl
    THEN LegacyCall(by, direction, doc, s.scrollStep, "scrollBy", 0,
                    IF direction = "up" THEN 0 - s.scrollStep * LINE_PX
                    ELSE s.scrollStep * LINE_PX)
    ELSE LegacyCall(by, direction, doc, s.scrollStep, "none", 0, 0)

\* The callback of a command or a button, by the move it makes.
legacyScroll(by, move, doc, s) ==
    IF move \in { "top", "bottom" }
    THEN legacyScrollToPosition(by, move, doc, s)
    ELSE scrollPartial(by, move, doc, s)

\* The move of each command.
CommandMove(id) ==
    IF id = "scroll-to-top" THEN "top"
    ELSE IF id = "scroll-to-bottom" THEN "bottom"
    ELSE IF id = "scroll-up" THEN "up" ELSE "down"

\* ------------------------------------------------------------- debounce
\* debounce(cb, 300, true): every call restarts the timer.
debounce_keepsTimer(t) == IF t = Idle THEN DEBOUNCE_MS ELSE t

debounce(t) == DEBOUNCE_MS

\* ------------------------------------------------------- handle hygiene
\* Handles and view names nothing refers to are reused: a closed pane that
\* holds no container returns to ClosedLeaf, and the view of a pane that
\* holds no container is named 1.
PaneElems(es, l) == { e \in ElemIds : es[e] # NoElem /\ es[e].pane = l }

GcLeaves(lv, h) ==
    [ l \in Leaves |->
        IF h.map[l] = NoEntry /\ PaneElems(h.elems, l) = {}
        THEN IF lv[l].open THEN [ lv[l] EXCEPT !.view = 1 ] ELSE ClosedLeaf
        ELSE lv[l] ]

\* A name for a new view instance of pane l.
FreshView(l) ==
    IF \E e \in PaneElems(elems, l) : elems[e].view = 1 THEN 2 ELSE 1

\* The record of the handler that acted last, kept when the run is observed.
\* Layout-change notifications and clock ticks touch the timer alone and are
\* not recorded, so `last` names the last step that read or wrote the panes,
\* the overlays or the settings.
Mark(op) == last' = IF last = "off" THEN "off" ELSE op

\* The record of the current burst of layout-change notifications (the
\* notifications since the timer was last idle), kept when the debounce is
\* observed: how many arrived (counted up to MaxBurst), the time since the last
\* one, the open markdown panes at the last one, and the runs that answered it.
NoBurst == [ on |-> FALSE, n |-> 0, elapsed |-> 0, seen |-> {}, runs |-> 0 ]

Note(b) == burst' = IF burst.on THEN b ELSE burst

\* The record of what loadData returned to loadSettings, kept when the load is
\* observed.
NoLoad == [ on |-> FALSE, done |-> FALSE, data |-> << >> ]

Loaded(data) ==
    loaded' = IF loaded.on THEN [ on |-> TRUE, done |-> TRUE, data |-> data ] ELSE loaded

\* The record of saveSettings calls that overlap, kept when the saves are
\* observed: "none" while at most one saveData write is pending, "pending"
\* while two are, "firstDone" when one of the two has resolved, "bothDone"
\* when both have, "failed" when one of them was rejected.
Overlap(v) == overlap' = IF overlap = "off" THEN "off" ELSE v

Commit(h) ==
    /\ leafButtonContainers' = h.map
    /\ elems' = h.elems

\* ------------------------------------------------------------------ Init
Constructed ==
    /\ phase = "constructed"
    /\ settings = DEFAULT_SETTINGS
    /\ leaves \in [ Leaves -> { ClosedLeaf,
                                [ open |-> TRUE, md |-> TRUE, content |-> TRUE, view |-> 1 ] } ]
    /\ activeLeaf = NoLeaf
    /\ subscribed = FALSE
    /\ leafButtonContainers = [ l \in Leaves |-> NoEntry ]
    /\ elems = [ e \in ElemIds |-> NoElem ]
    /\ styleEl = NullStyle
    /\ headStyles = 0
    /\ timer = Idle
    /\ saves = 0
    /\ scroll = NoScroll
    /\ commands = {}
    /\ settingTab = FALSE
    /\ previewContainer = NoPreview

\* No getContrastColor call is under observation.
NoCall == hexColor = << >> /\ iconColor = "none"

\* Neither the load nor the overlap of saves is under observation.
NoHistory == loaded = NoLoad /\ overlap = "off"

\* ------------------------------------------------ colour strings tried
ToHex2(digits, n) == << digits[(n \div 16) + 1], digits[(n % 16) + 1] >>

HexColor(digits, r, g, b) ==
    << "#" >> \o ToHex2(digits, r) \o ToHex2(digits, g) \o ToHex2(digits, b)

ChannelValues == { 0, 1, 51, 58, 98, 127, 128, 130, 204, 218, 254, 255 }

\* '#RRGGBB': sampled red and green with every blue, every colour whose
\* weighted sum is exactly half of the maximum, and lower-case samples.
ValidColors ==
    { HexColor(UpperHex, r, g, b) : r \in ChannelValues, g \in ChannelValues, b \in 0..255 }
    \cup { HexColor(UpperHex, rg[1], rg[2], (127500 - 299 * rg[1] - 587 * rg[2]) \div 114) :
             rg \in { x \in (0..255) \X (0..255) :
                        /\ 127500 - 299 * x[1] - 587 * x[2] >= 0
                        /\ (127500 - 299 * x[1] - 587 * x[2]) % 114 = 0
                        /\ (127500 - 299 * x[1] - 587 * x[2]) \div 114 <= 255 } }
    \cup { HexColor(LowerHex, r, g, b) : r \in ChannelValues, g \in ChannelValues,
                                         b \in ChannelValues }

\* '#rgb' for every triple of hex digits, upper or lower case
ShorthandColors ==
    LET digits == { UpperHex[i] : i \in 1..16 } \cup { LowerHex[i] : i \in 1..16 }
    IN  { << "#", r, g, b >> : r \in digits, g \in digits, b \in digits }

\* Every string of fewer than four of these characters, the empty one included
ShortStrings ==
    UNION { [ 1..n -> { "#", "0", "8", "F", "f", "G", " ", "\t" } ] : n \in 0..3 }

\* '#' and hex digits, of a length that is neither 4 nor 7
WrongLengthColors ==
    UNION { { << "#" >> \o t : t \in [ 1..(n - 1) -> { "0", "8", "F" } ] } :
            n \in (5..MaxColorLen) \ { 7 } }

\* A character that is no hex digit, at any place after the '#'
BadCharColors ==
    LET base == { << "#", "0", "0", "0" >>, << "#", "F", "F", "F" >>,
                  << "#", "0", "0", "0", "0", "0", "0" >>,
                  << "#", "8", "0", "8", "0", "8", "0" >>,
                  << "#", "F", "F", "F", "F", "F", "F" >> }
        odd  == { "G", "g", "#", "x", "-", "+", ".", "U+200B" } \cup StrWhiteSpaceChar
    IN  UNION { { [ c EXCEPT ![i] = x ] : i \in 2..Len(c), x \in odd } : c \in base }
        \cup { << "#", "G", "G", "G", "G", "G", "G" >>, << "#", "G", "G", "G" >>,
               << "#", "-", "F", "-", "F", "-", "F" >>, << "#", "0", "x", "0", "x", "0", "x" >>,
               << "#", "\t", "F", "\t", "F", "\t", "F" >>,
               << "#", "\n", "F", "\n", "F", "\n", "F" >>,
               << "#", " ", "F", "\t", "F", "\n", "F" >> }

ColorInputs ==
    ValidColors \cup ShorthandColors \cup ShortStrings \cup WrongLengthColors
    \cup BadCharColors

\* The state after construction; the handlers are not recorded.
Init == Constructed /\ LegacyAbsent /\ last = "off" /\ burst = NoBurst /\ NoCall /\ NoHistory

\* The same, with the handler that acted last recorded in `last`.
InitObserved == Constructed /\ LegacyAbsent /\ last = "init" /\ burst = NoBurst /\ NoCall /\ NoHistory

\* The same, with the bursts of layout-change notifications recorded in `burst`.
InitDebounce ==
    /\ Constructed
    /\ LegacyAbsent
    /\ last = "off"
    /\ burst = [ NoBurst EXCEPT !.on = TRUE ]
    /\ NoCall
    /\ NoHistory

\* The state after construction, with the blob loadData returns recorded.
InitActivation ==
    /\ Constructed
    /\ LegacyAbsent
    /\ last = "off"
    /\ burst = NoBurst
    /\ NoCall
    /\ loaded = [ NoLoad EXCEPT !.on = TRUE ]
    /\ overlap = "off"

\* The same with every pane holding a markdown view, and the handler that
\* acted last recorded too.
InitSettings ==
    /\ Constructed
    /\ LegacyAbsent
    /\ leaves = [ l \in Leaves |->
                    [ open |-> TRUE, md |-> TRUE, content |-> TRUE, view |-> 1 ] ]
    /\ last = "init"
    /\ burst = NoBurst
    /\ NoCall
    /\ loaded = [ NoLoad EXCEPT !.on = TRUE ]
    /\ overlap = "off"

\* The state after construction, with the overlap of saveSettings calls recorded.
InitOverlap ==
    /\ Constructed
    /\ LegacyAbsent
    /\ last = "off"
    /\ burst = NoBurst
    /\ NoCall
    /\ loaded = NoLoad
    /\ overlap = "none"

\* A getContrastColor call is observed on a plugin with no pane open.
InitContrast ==
    /\ Constructed
    /\ LegacyAbsent
    /\ leaves = [ l \in Leaves |-> ClosedLeaf ]
    /\ last = "off"
    /\ burst = NoBurst
    /\ hexColor \in ColorInputs
    /\ iconColor = "none"
    /\ NoHistory

\* ------------------------------------------------------- plugin lifecycle
\* onload: settings loaded, commands and settings tab registered, style added,
\* the layout-ready callback registered.
Onload ==
    /\ phase = "constructed"
    /\ \E data \in PersistedBlobs :
         /\ settings' = loadSettings(data)
         /\ styleEl' = addStyle(styleEl, settings')
         /\ Loaded(data)
    /\ commands' = CommandIds
    /\ settingTab' = TRUE
    /\ headStyles' = (IF styleEl.attached THEN headStyles - 1 ELSE headStyles) + 1
    /\ phase' = "loaded"
    /\ Mark("onload")
    /\ UNCHANGED << leaves, activeLeaf, subscribed, leafButtonContainers, elems, timer, saves, burst,
                    hexColor, iconColor, scroll, overlap, previewContainer, legacy >>

\* The onLayoutReady callback: overlays for the open panes, then the two
\* event subscriptions.
LayoutReady ==
    /\ phase = "loaded"
    /\ LET h == initializeAllButtons(Heap)
       IN  /\ Commit(h)
           /\ leaves' = GcLeaves(leaves, h)
    /\ subscribed' = TRUE
    /\ phase' = "ready"
    /\ Mark("layoutReady")
    /\ UNCHANGED << settings, activeLeaf, styleEl, headStyles, timer, saves, burst,
                    hexColor, iconColor,
                    scroll, commands, settingTab, loaded, overlap, previewContainer, legacy >>

\* onunload; the host drops the registered event subscriptions, commands and
\* settings tab. A pending
\* debounce timer and pending saveData promises are not cancelled. The user
\* reaches the plugin switch, like the settings tab, once the layout is ready.
Onunload ==
    /\ phase = "ready"
    /\ LET h == unloadContainers(Heap)
       IN  /\ Commit(h)
           /\ leaves' = GcLeaves(leaves, h)
    /\ headStyles' = IF styleEl.attached THEN headStyles - 1 ELSE headStyles
    /\ styleEl' = NullStyle
    /\ subscribed' = FALSE
    /\ commands' = {}
    /\ settingTab' = FALSE
    /\ phase' = "unloaded"
    /\ Mark("unload")
    /\ UNCHANGED << settings, activeLeaf, timer, saves, burst, hexColor, iconColor,
                    scroll, loaded, overlap, previewContainer, legacy >>

\* ------------------------------------------------------- host workspace
\* The host opens a pane: a new handle, holding a markdown view or another view.
OpenLeaf ==
    /\ \E l \in Leaves, md \in BOOLEAN, content \in BOOLEAN :
         /\ leaves[l] = ClosedLeaf
         /\ md \/ ~content
         /\ leaves' = [ leaves EXCEPT ![l] =
                          [ open |-> TRUE, md |-> md, content |-> content, view |-> 1 ] ]
    /\ Mark("host")
    /\ UNCHANGED << phase, settings, activeLeaf, subscribed, leafButtonContainers,
                    elems, styleEl, headStyles, timer, saves, burst, hexColor, iconColor,
                    scroll, commands, settingTab, loaded, overlap, previewContainer, legacy >>

\* The host closes a pane that is not the active one.
CloseLeaf ==
    /\ \E l \in Leaves :
         /\ leaves[l].open
         /\ l # activeLeaf
         /\ leaves' = GcLeaves([ leaves EXCEPT ![l].open = FALSE, ![l].content = FALSE ], Heap)
    /\ Mark("host")
    /\ UNCHANGED << phase, settings, activeLeaf, subscribed, leafButtonContainers,
                    elems, styleEl, headStyles, timer, saves, burst, hexColor, iconColor,
                    scroll, commands, settingTab, loaded, overlap, previewContainer, legacy >>

\* The pane's view is replaced by a new view instance (leaf.setViewState).
SetViewState ==
    /\ \E l \in Leaves, md \in BOOLEAN, content \in BOOLEAN :
         /\ leaves[l].open
         /\ md \/ ~content
         /\ leaves' = [ leaves EXCEPT ![l] =
                          [ open |-> TRUE, md |-> md, content |-> content,
                            view |-> FreshView(l) ] ]
         /\ leaves' # leaves
    /\ Mark("host")
    /\ UNCHANGED << phase, settings, activeLeaf, subscribed, leafButtonContainers,
                    elems, styleEl, headStyles, timer, saves, burst, hexColor, iconColor,
                    scroll, commands, settingTab, loaded, overlap, previewContainer, legacy >>

\* The '.view-content' lookup of a markdown view starts or stops finding an element.
ContentChange ==
    /\ \E l \in Leaves :
         /\ leaves[l].open /\ leaves[l].md
         /\ leaves' = [ leaves EXCEPT ![l].content = ~@ ]
    /\ Mark("host")
    /\ UNCHANGED << phase, settings, activeLeaf, subscribed, leafButtonContainers,
                    elems, styleEl, headStyles, timer, saves, burst, hexColor, iconColor,
                    scroll, commands, settingTab, loaded, overlap, previewContainer, legacy >>

\* The active pane changes; the host fires 'active-leaf-change' with it.
ActiveLeafChange ==
    /\ \E p \in Leaves \cup { NoLeaf } :
         /\ p # activeLeaf
         /\ p # NoLeaf => leaves[p].open
         /\ activeLeaf' = p
         /\ IF subscribed
            THEN Commit(handleActiveLeafChange(Heap, p)) /\ Mark("focus")
            ELSE UNCHANGED << leafButtonContainers, elems >> /\ Mark("host")
    /\ UNCHANGED << phase, settings, leaves, subscribed, styleEl, headStyles, timer, saves, burst,
                    hexColor, iconColor,
                    scroll, commands, settingTab, loaded, overlap, previewContainer, legacy >>

\* ------------------------------------------------- debounced reconciliation
\* The host fires 'layout-change': the debounced handler is called.
LayoutChangeEvent ==
    /\ subscribed
    /\ timer' = debounce(timer)
    /\ Note([ burst EXCEPT !.n = IF timer = Idle THEN 1
                                   ELSE IF @ < MaxBurst THEN @ + 1 ELSE @,
                            !.elapsed = 0,
                            !.seen = getLeavesOfType(leaves),
                            !.runs = IF timer = Idle THEN 0 ELSE @ ])
    /\ UNCHANGED << phase, settings, leaves, activeLeaf, subscribed, leafButtonContainers,
                    elems, styleEl, headStyles, saves, last, hexColor, iconColor,
                    scroll, commands, settingTab, loaded, overlap, previewContainer, legacy >>

\* Time passes while the timer is pending.
Tick ==
    /\ timer > 0
    /\ timer' = timer - TickMs
    /\ Note([ burst EXCEPT !.elapsed = @ + TickMs ])
    /\ UNCHANGED << phase, settings, leaves, activeLeaf, subscribed, leafButtonContainers,
                    elems, styleEl, headStyles, saves, last, hexColor, iconColor,
                    scroll, commands, settingTab, loaded, overlap, previewContainer, legacy >>

\* The timer expires: reconciliation runs.
DebounceFire ==
    /\ timer = 0
    /\ timer' = Idle
    /\ LET h == handleLayoutChange(Heap)
       IN  /\ Commit(h)
           /\ leaves' = GcLeaves(leaves, h)
    /\ Mark(IF last \in { "reconcile", "reconciledAgain" }
            THEN "reconciledAgain" ELSE "reconcile")
    /\ Note([ burst EXCEPT !.elapsed = 0, !.seen = {}, !.runs = IF @ < 2 THEN @ + 1 ELSE @ ])
    /\ UNCHANGED << phase, settings, activeLeaf, subscribed, styleEl, headStyles, saves,
                    hexColor, iconColor,
                    scroll, commands, settingTab, loaded, overlap, previewContainer, legacy >>

\* ------------------------------------------------------------ settings form
\* An onChange handler of the settings tab: the field is set and saveSettings
\* is called, which awaits saveData.
SettingsChange ==
    /\ phase = "ready"
    /\ saves < MaxPendingSaves
    /\ \E in \in FormInputs :
         /\ settings[in[1]] # in[2]
         /\ settings' = [ settings EXCEPT ![in[1]] = in[2] ]
    /\ previewContainer' = updatePreviewButtons(previewContainer, settings')
    /\ saves' = saves + 1
    /\ Mark("settings")
    /\ Overlap(IF saves = 0 THEN "none" ELSE "pending")
    /\ UNCHANGED << phase, leaves, activeLeaf, subscribed, leafButtonContainers,
                    elems, styleEl, headStyles, timer, burst, hexColor, iconColor,
                    scroll, commands, settingTab, loaded, legacy >>

\* saveData resolves: saveSettings continues with updateAllButtons and updateStyle.
SaveDataResolve ==
    /\ saves > 0
    /\ saves' = saves - 1
    /\ LET h == updateAllButtons(Heap)
       IN  /\ Commit(h)
           /\ leaves' = GcLeaves(leaves, h)
    /\ styleEl' = updateStyle(styleEl, settings)
    /\ Mark("rebuild")
    /\ Overlap(IF overlap = "pending" THEN "firstDone"
               ELSE IF overlap = "firstDone" THEN "bothDone" ELSE overlap)
    /\ UNCHANGED << phase, settings, activeLeaf, subscribed, headStyles, timer, burst,
                    hexColor, iconColor, scroll, commands, settingTab, loaded,
                    previewContainer, legacy >>

\* saveData rejects: saveSettings ends there.
SaveDataReject ==
    /\ saves > 0
    /\ saves' = saves - 1
    /\ Mark("saveFailed")
    /\ Overlap(IF overlap \in { "pending", "firstDone" } THEN "failed" ELSE overlap)
    /\ UNCHANGED << phase, settings, leaves, activeLeaf, subscribed, leafButtonContainers,
                    elems, styleEl, headStyles, timer, burst, hexColor, iconColor,
                    scroll, commands, settingTab, loaded, previewContainer, legacy >>

Next ==
    \/ Onload
    \/ LayoutReady
    \/ Onunload
    \/ OpenLeaf
    \/ CloseLeaf
    \/ SetViewState
    \/ ContentChange
    \/ ActiveLeafChange
    \/ LayoutChangeEvent
    \/ Tick
    \/ DebounceFire
    \/ SettingsChange
    \/ SaveDataResolve
    \/ SaveDataReject

\* ------------------------------------------- pane changes with their event
\* The host opens a pane and fires 'layout-change' for it.
OpenLeafNotified ==
    /\ subscribed
    /\ \E l \in Leaves, md \in BOOLEAN, content \in BOOLEAN :
         /\ leaves[l] = ClosedLeaf
         /\ md \/ ~content
         /\ leaves' = [ leaves EXCEPT ![l] =
                          [ open |-> TRUE, md |-> md, content |-> content, view |-> 1 ] ]
    /\ timer' = debounce(timer)
    /\ Note([ burst EXCEPT !.n = IF timer = Idle THEN 1
                                   ELSE IF @ < MaxBurst THEN @ + 1 ELSE @,
                            !.elapsed = 0,
                            !.seen = getLeavesOfType(leaves'),
                            !.runs = IF timer = Idle THEN 0 ELSE @ ])
    /\ Mark("host")
    /\ UNCHANGED << phase, settings, activeLeaf, subscribed, leafButtonContainers,
                    elems, styleEl, headStyles, saves, hexColor, iconColor,
                    scroll, commands, settingTab, loaded, overlap, previewContainer, legacy >>

\* The host closes a pane that is not the active one and fires 'layout-change'.
CloseLeafNotified ==
    /\ subscribed
    /\ \E l \in Leaves :
         /\ leaves[l].open
         /\ l # activeLeaf
         /\ leaves' = GcLeaves([ leaves EXCEPT ![l].open = FALSE, ![l].content = FALSE ], Heap)
    /\ timer' = debounce(timer)
    /\ Note([ burst EXCEPT !.n = IF timer = Idle THEN 1
                                   ELSE IF @ < MaxBurst THEN @ + 1 ELSE @,
                            !.elapsed = 0,
                            !.seen = getLeavesOfType(leaves'),
                            !.runs = IF timer = Idle THEN 0 ELSE @ ])
    /\ Mark("host")
    /\ UNCHANGED << phase, settings, activeLeaf, subscribed, leafButtonContainers,
                    elems, styleEl, headStyles, saves, hexColor, iconColor,
                    scroll, commands, settingTab, loaded, overlap, previewContainer, legacy >>

\* The plugin with a host whose pane changes are panes opening and closing,
\* each notified by a layout-change event.
NextNotified ==
    \/ Onload
    \/ LayoutReady
    \/ Onunload
    \/ OpenLeafNotified
    \/ CloseLeafNotified
    \/ ActiveLeafChange
    \/ LayoutChangeEvent
    \/ Tick
    \/ DebounceFire

\* ------------------------------------------- every button-flag combination
\* onload on a vault whose data.json holds any combination of the button flags.
OnloadFlags ==
    /\ phase = "constructed"
    /\ \E data \in FlagBlobs :
         /\ settings' = loadSettings(data)
         /\ styleEl' = addStyle(styleEl, settings')
         /\ Loaded(data)
    /\ commands' = CommandIds
    /\ settingTab' = TRUE
    /\ headStyles' = (IF styleEl.attached THEN headStyles - 1 ELSE headStyles) + 1
    /\ phase' = "loaded"
    /\ Mark("onload")
    /\ UNCHANGED << leaves, activeLeaf, subscribed, leafButtonContainers, elems, timer, saves,
                    burst, hexColor, iconColor, scroll, overlap, previewContainer, legacy >>

\* The plugin between activation and the first settings change.
NextFlags ==
    \/ OnloadFlags
    \/ LayoutReady
    \/ OpenLeaf
    \/ CloseLeaf
    \/ SetViewState
    \/ ActiveLeafChange
    \/ LayoutChangeEvent
    \/ Tick
    \/ DebounceFire

\* ------------------------------------------- every persisted blob and the form
\* onload on a vault whose data.json holds any subset of the settings keys.
OnloadSubset ==
    /\ phase = "constructed"
    /\ \E data \in SubsetBlobs :
         /\ settings' = loadSettings(data)
         /\ styleEl' = addStyle(styleEl, settings')
         /\ Loaded(data)
    /\ commands' = CommandIds
    /\ settingTab' = TRUE
    /\ headStyles' = (IF styleEl.attached THEN headStyles - 1 ELSE headStyles) + 1
    /\ phase' = "loaded"
    /\ Mark("onload")
    /\ UNCHANGED << leaves, activeLeaf, subscribed, leafButtonContainers, elems, timer, saves,
                    burst, hexColor, iconColor, scroll, overlap, previewContainer, legacy >>

\* An onChange handler of a slider, the size dropdown or a toggle: the field is
\* set and saveSettings is called, which awaits saveData.
SettingsFormChange ==
    /\ settingTab
    /\ phase = "ready"
    /\ saves < MaxPendingSaves
    /\ \E in \in FormEdits :
         /\ \E k \in DOMAIN in : settings[k] # in[k]
         /\ settings' = ObjectAssign(settings, in)
    /\ previewContainer' = updatePreviewButtons(previewContainer, settings')
    /\ saves' = saves + 1
    /\ Mark("settings")
    /\ Overlap(IF saves = 0 THEN "none" ELSE "pending")
    /\ UNCHANGED << phase, leaves, activeLeaf, subscribed, leafButtonContainers,
                    elems, styleEl, headStyles, timer, burst, hexColor, iconColor,
                    scroll, commands, settingTab, loaded, legacy >>

\* The plugin with its settings loaded from any blob and edited in the form.
NextSettings ==
    \/ OnloadSubset
    \/ LayoutReady
    \/ Onunload
    \/ SettingsFormChange
    \/ SaveDataResolve
    \/ SaveDataReject

\* ------------------------------------------- settings edits in quick succession
\* An onChange handler runs while the saveData write of an earlier one may
\* still be pending: the field is set and saveSettings is called again.
SettingsChangeOverlapping ==
    /\ settingTab
    /\ phase = "ready"
    /\ saves < MaxOverlappingSaves
    /\ \E in \in OverlapEdits :
         /\ \E k \in DOMAIN in : settings[k] # in[k]
         /\ settings' = ObjectAssign(settings, in)
    /\ previewContainer' = updatePreviewButtons(previewContainer, settings')
    /\ saves' = saves + 1
    /\ Mark("settings")
    /\ Overlap(IF saves = 0 THEN "none" ELSE "pending")
    /\ UNCHANGED << phase, leaves, activeLeaf, subscribed, leafButtonContainers,
                    elems, styleEl, headStyles, timer, burst, hexColor, iconColor,
                    scroll, commands, settingTab, loaded, legacy >>

\* The plugin with settings edits whose saves may overlap, in a workspace
\* whose panes open and close.
NextOverlap ==
    \/ Onload
    \/ LayoutReady
    \/ OpenLeaf
    \/ CloseLeaf
    \/ ActiveLeafChange
    \/ LayoutChangeEvent
    \/ Tick
    \/ DebounceFire
    \/ SettingsChangeOverlapping
    \/ SaveDataResolve
    \/ SaveDataReject

\* ------------------------------------------------- commands and buttons
\* onload on a vault whose data.json may switch animations off.
OnloadAnimations ==
    /\ phase = "constructed"
    /\ \E data \in AnimationBlobs :
         /\ settings' = loadSettings(data)
         /\ styleEl' = addStyle(styleEl, settings')
         /\ Loaded(data)
    /\ commands' = CommandIds
    /\ settingTab' = TRUE
    /\ headStyles' = (IF styleEl.attached THEN headStyles - 1 ELSE headStyles) + 1
    /\ phase' = "loaded"
    /\ Mark("onload")
    /\ UNCHANGED << leaves, activeLeaf, subscribed, leafButtonContainers, elems, timer, saves,
                    burst, hexColor, iconColor, scroll, overlap, previewContainer, legacy >>

\* The user runs a registered command: its callback calls
\* scrollToPosition(position, getActiveMarkdownView()).
ScrollCommand ==
    /\ \E id \in commands, doc \in Docs :
         scroll' = ScrollCall(id, IF id = "scroll-to-top" THEN "top" ELSE "bottom",
                              getActiveMarkdownView, doc)
    /\ Mark("command")
    /\ UNCHANGED << phase, settings, leaves, activeLeaf, subscribed, leafButtonContainers,
                    elems, styleEl, headStyles, timer, saves, burst, hexColor, iconColor,
                    commands, settingTab, loaded, overlap, previewContainer, legacy >>

\* The user clicks a button of an overlay that is on display, that is attached
\* in the view its pane shows: the click listener calls
\* scrollToPosition(position, view) with the view the button was created for.
ButtonClick ==
    /\ \E e \in ElemIds, doc \in Docs :
         /\ elems[e].attached
         /\ leaves[elems[e].pane].open
         /\ leaves[elems[e].pane].view = elems[e].view
         /\ \E i \in 1..Len(elems[e].buttons) :
              scroll' = ScrollCall("click", elems[e].buttons[i].action,
                                   [ pane |-> elems[e].pane, view |-> elems[e].buttons[i].view ],
                                   doc)
    /\ Mark("click")
    /\ UNCHANGED << phase, settings, leaves, activeLeaf, subscribed, leafButtonContainers,
                    elems, styleEl, headStyles, timer, saves, burst, hexColor, iconColor,
                    commands, settingTab, loaded, overlap, previewContainer, legacy >>

\* The plugin from activation to deactivation, with its commands and buttons
\* in use.
NextCommands ==
    \/ OnloadAnimations
    \/ LayoutReady
    \/ Onunload
    \/ OpenLeaf
    \/ CloseLeaf
    \/ SetViewState
    \/ ActiveLeafChange
    \/ LayoutChangeEvent
    \/ Tick
    \/ DebounceFire
    \/ ScrollCommand
    \/ ButtonClick

\* ------------------------------------------- the settings tab on display
\* The same with every pane holding a markdown view.
InitPreview ==
    /\ Constructed
    /\ LegacyAbsent
    /\ leaves = [ l \in Leaves |->
                    [ open |-> TRUE, md |-> TRUE, content |-> TRUE, view |-> 1 ] ]
    /\ last = "init"
    /\ burst = NoBurst
    /\ NoCall
    /\ NoHistory

\* The user opens the settings tab: the host calls display().
Display ==
    /\ settingTab
    /\ phase = "ready"
    /\ previewContainer' = display(settings)
    /\ Mark("display")
    /\ UNCHANGED << phase, settings, leaves, activeLeaf, subscribed, leafButtonContainers,
                    elems, styleEl, headStyles, timer, saves, burst, hexColor, iconColor,
                    scroll, commands, settingTab, loaded, overlap, legacy >>

\* An onChange handler of one of the three toggles of the tab on display: the
\* field is set, the preview rendered again and saveSettings called, which
\* awaits saveData.
SettingsFlagChange ==
    /\ settingTab
    /\ previewContainer.exists
    /\ saves < MaxPendingSaves
    /\ \E in \in FlagEdits :
         /\ \E k \in DOMAIN in : settings[k] # in[k]
         /\ settings' = ObjectAssign(settings, in)
    /\ previewContainer' = updatePreviewButtons(previewContainer, settings')
    /\ saves' = saves + 1
    /\ Mark("settings")
    /\ UNCHANGED << phase, leaves, activeLeaf, subscribed, leafButtonContainers,
                    elems, styleEl, headStyles, timer, burst, hexColor, iconColor,
                    scroll, commands, settingTab, loaded, overlap, legacy >>

\* The plugin with any button flags loaded and its settings tab in use.
NextPreview ==
    \/ OnloadFlags
    \/ LayoutReady
    \/ ActiveLeafChange
    \/ Display
    \/ SettingsFlagChange
    \/ SaveDataResolve
    \/ SaveDataReject

\* ----------------------------------------------------------- legacy variant
\* Persisted blobs of the legacy variant: none, and the other two button positions.
LegacyBlobs ==
    { << >>, [ buttonPosition |-> "ribbon" ], [ buttonPosition |-> "toolbar" ] }

\* Persisted blobs with auto-hide on and a delay of some slider steps.
AutoHideBlobs ==
    { [ autoHide |-> TRUE, autoHideDelay |-> d ] : d \in AutoHideDelays }

\* Edits of the legacy settings form.
LegacyEdits ==
    { [ buttonPosition |-> v ] : v \in { "floating", "ribbon", "toolbar" } } \cup
    { [ showScrollUpButton |-> v ] : v \in BOOLEAN } \cup
    { [ buttonSize |-> v ] : v \in { "small", "medium" } }

AutoHideEdits ==
    { [ autoHideDelay |-> d ] : d \in AutoHideDelays } \cup
    { [ autoHide |-> v ] : v \in BOOLEAN }

\* The legacy variant installed and constructed; the variables of the current
\* plugin stay as they are.
InitLegacy ==
    /\ Constructed
    /\ leaves = [ l \in Leaves |-> ClosedLeaf ]
    /\ last = "off"
    /\ burst = NoBurst
    /\ NoCall
    /\ NoHistory
    /\ legacy = LegacyConstructed

Did(op, b) == [ op |-> op, button |-> b ]

\* onload of the legacy variant: settings loaded, four commands and the
\* settings tab registered, the buttons initialized.
legacyOnload(data) ==
    initializeButtons([ legacy EXCEPT !.settings = ObjectAssign(LEGACY_DEFAULT_SETTINGS, data),
                                      !.commands = LegacyCommandIds,
                                      !.settingTab = TRUE,
                                      !.phase = "loaded",
                                      !.last = Did("onload", 0) ])

LegacyOnload ==
    /\ legacy.phase = "constructed"
    /\ \E data \in LegacyBlobs : legacy' = legacyOnload(data)
    /\ UNCHANGED mainVars

LegacyOnloadAutoHide ==
    /\ legacy.phase = "constructed"
    /\ \E data \in AutoHideBlobs : legacy' = legacyOnload(data)
    /\ UNCHANGED mainVars

\* onunload of the legacy variant; the host drops the commands, the ribbon
\* icons and the settings tab. Style nodes, document listeners, hide timers
\* and pending saveData promises are left as they are.
LegacyOnunload ==
    /\ legacy.phase = "loaded"
    /\ legacy' = removeFloatingButtons([ legacy EXCEPT !.commands = {},
                                                       !.settingTab = FALSE,
                                                       !.ribbonIcons = 0,
                                                       !.phase = "unloaded",
                                                       !.last = Did("unload", 0) ])
    /\ UNCHANGED mainVars

\* An onChange handler of the legacy settings tab: the field is set and
\* saveSettings is called, which awaits saveData.
legacySettingsChange(in) ==
    /\ \E k \in DOMAIN in : legacy.settings[k] # in[k]
    /\ legacy' = [ legacy EXCEPT !.settings = ObjectAssign(legacy.settings, in),
                                 !.saves = @ + 1,
                                 !.calls = @ + 1,
                                 !.last = Did("settings", 0) ]

LegacySettingsChange ==
    /\ legacy.settingTab
    /\ legacy.saves < MaxPendingSaves
    /\ legacy.calls < MaxLegacySaves
    /\ \E in \in LegacyEdits : legacySettingsChange(in)
    /\ UNCHANGED mainVars

LegacyAutoHideChange ==
    /\ legacy.settingTab
    /\ legacy.saves < MaxPendingSaves
    /\ legacy.calls < MaxLegacySaves
    /\ \E in \in AutoHideEdits : legacySettingsChange(in)
    /\ UNCHANGED mainVars

\* saveData resolves: saveSettings continues with initializeButtons.
LegacySaveDataResolve ==
    /\ legacy.saves > 0
    /\ CanInitialize(legacy)
    /\ legacy' = initializeButtons([ legacy EXCEPT !.saves = @ - 1,
                                                   !.last = Did("rebuild", 0) ])
    /\ UNCHANGED mainVars

\* saveData rejects: saveSettings ends there.
LegacySaveDataReject ==
    /\ legacy.saves > 0
    /\ legacy' = [ legacy EXCEPT !.saves = @ - 1, !.last = Did("saveFailed", 0) ]
    /\ UNCHANGED mainVars

\* A 'scroll' event reaches the document: the listener of every button that
\* setupAutoHide was called for runs showButton.
DocumentScroll ==
    /\ AutoHideButtons(legacy) # {}
    /\ legacy' = showEach([ legacy EXCEPT !.last = Did("scroll", 0) ], AutoHideButtons(legacy))
    /\ UNCHANGED mainVars

\* The pointer moves over a button in the document: its mouseover listener
\* runs showButton.
MouseOver ==
    /\ \E b \in AutoHideButtons(legacy) :
         /\ legacy.nodes[b].attached
         /\ legacy' = showButton([ legacy EXCEPT !.last = Did("mouseover", b) ], b)
    /\ UNCHANGED mainVars

\* Time passes while a hide timer is pending and none is due.
LegacyTick ==
    /\ \E b \in ButtonIds : legacy.nodes[b].timeout > 0
    /\ \A b \in ButtonIds : legacy.nodes[b].timeout # 0
    /\ legacy' = [ legacy EXCEPT
                     !.nodes = [ b \in ButtonIds |->
                                   [ @[b] EXCEPT
                                       !.timeout = IF @ > 0 THEN @ - AUTO_HIDE_STEP_MS ELSE @,
                                       !.idle = IF legacy.nodes[b].armed > 0 /\ @ < MaxHideDelay
                                                THEN @ + AUTO_HIDE_STEP_MS ELSE @ ] ],
                     !.last = Did("tick", 0) ]
    /\ UNCHANGED mainVars

\* A hide timer expires: its callback sets the button's opacity to 0.
HideTimeout ==
    /\ \E b \in ButtonIds :
         /\ legacy.nodes[b].timeout = 0
         /\ legacy' = [ legacy EXCEPT !.nodes[b].opacity = "0",
                                      !.nodes[b].timeout = Idle,
                                      !.last = Did("hide", b) ]
    /\ UNCHANGED mainVars

\* The legacy variant from activation on, with its settings form in use.
NextLegacy ==
    \/ LegacyOnload
    \/ LegacyOnunload
    \/ LegacySettingsChange
    \/ LegacySaveDataResolve
    \/ LegacySaveDataReject

\* The legacy variant with auto-hide on.
NextAutoHide ==
    \/ LegacyOnloadAutoHide
    \/ LegacyOnunload
    \/ LegacyAutoHideChange
    \/ LegacySaveDataResolve
    \/ LegacySaveDataReject
    \/ DocumentScroll
    \/ MouseOver
    \/ LegacyTick
    \/ HideTimeout

\* Persisted blobs with the partial-scroll buttons shown and any scroll step
\* tried, a negative one or zero included.
ScrollStepBlobs ==
    { [ showScrollUpButton |-> TRUE, showScrollDownButton |-> TRUE, scrollStep |-> n ] :
        n \in ScrollSteps }

LegacyOnloadScrollStep ==
    /\ legacy.phase = "constructed"
    /\ \E data \in ScrollStepBlobs : legacy' = legacyOnload(data)
    /\ UNCHANGED mainVars

\* The user runs a registered command of the legacy variant.
LegacyCommand ==
    /\ \E id \in legacy.commands, doc \in LegacyDocs :
         legacy' = [ legacy EXCEPT !.scroll = legacyScroll(id, CommandMove(id), doc, legacy.settings),
                                   !.last = Did("command", 0) ]
    /\ UNCHANGED mainVars

\* The user clicks a floating button of the legacy variant.
LegacyButtonClick ==
    /\ \E b \in ButtonIds, doc \in LegacyDocs :
         /\ legacy.nodes[b].attached
         /\ legacy' = [ legacy EXCEPT
                          !.scroll = legacyScroll("click", legacy.nodes[b].action, doc,
                                                  legacy.settings),
                          !.last = Did("click", b) ]
    /\ UNCHANGED mainVars

\* The legacy variant with its commands and buttons in use.
NextPartial ==
    \/ LegacyOnloadScrollStep
    \/ LegacyOnunload
    \/ LegacyCommand
    \/ LegacyButtonClick

\* ----------------------------------------------------- contrast resolver
\* getContrastColor(hexColor) returns.
GetContrastColor ==
    /\ iconColor = "none"
    /\ iconColor' = getContrastColor(hexColor)
    /\ UNCHANGED << phase, settings, leaves, activeLeaf, subscribed, leafButtonContainers,
                    elems, styleEl, headStyles, timer, saves, last, burst, hexColor,
                    scroll, commands, settingTab, loaded, overlap, previewContainer, legacy >>

Spec == Init /\ [][Next]_vars

SpecObserved == InitObserved /\ [][Next]_vars

SpecDebounce == InitDebounce /\ [][Next]_vars

SpecContrast == InitContrast /\ [][GetContrastColor]_vars

SpecFlags == Init /\ [][NextFlags]_vars

SpecCommands == InitActivation /\ [][NextCommands]_vars

SpecSettings == InitSettings /\ [][NextSettings]_vars

SpecOverlap == InitOverlap /\ [][NextOverlap]_vars

SpecPreview == InitPreview /\ [][NextPreview]_vars

SpecLegacy == InitLegacy /\ [][NextLegacy]_vars

SpecAutoHide == InitLegacy /\ [][NextAutoHide]_vars

SpecPartial == InitLegacy /\ [][NextPartial]_vars

\* The clock advances while a timer is pending and an expired timer runs its
\* callback.
SpecNotified ==
    InitDebounce /\ [][NextNotified]_vars /\ WF_vars(Tick) /\ WF_vars(DebounceFire)

TypeOK ==
    /\ phase \in { "constructed", "loaded", "ready", "unloaded" }
    /\ activeLeaf \in Leaves \cup { NoLeaf }
    /\ timer \in { Idle } \cup 0..DEBOUNCE_MS
    /\ saves \in 0..MaxOverlappingSaves

\* ====================================================================
\* Properties
\* ====================================================================
Tracked == Keys(leafButtonContainers)
OpenMarkdown == getLeavesOfType(leaves)
Resolvable == { l \in OpenMarkdown : HasViewContent(l) }
Container(l) == elems[leafButtonContainers[l]]
AttachedOn(l) == { e \in ElemIds : elems[e].attached /\ elems[e].pane = l }
AttachedElems == { e \in ElemIds : elems[e].attached }

AfterReconcile == last \in { "reconcile", "reconciledAgain" }

\* The steps of the handlers, as relations between a state and its successor.
ReconcileStep == timer = 0 /\ timer' = Idle
RebuildStep == saves' = saves - 1 /\ last' = "rebuild"
FocusStep == subscribed /\ activeLeaf' # activeLeaf
UnloadStep == phase # "unloaded" /\ phase' = "unloaded"

\* --------------------------------------------------------------------
\* C1 as stated: after every reconciliation run the tracked panes are exactly
\* the open markdown panes whose '.view-content' is resolvable.
C1_TrackedEqualsResolvable ==
    AfterReconcile => Tracked = Resolvable

\* C1, amended: a reconciliation run leaves tracked exactly the panes that were
\* tracked and are still open markdown panes, plus the open markdown panes
\* whose '.view-content' is resolvable; so every open resolvable pane is
\* tracked and no tracked pane is closed, but a pane tracked before the run
\* stays tracked when its attachment point is no longer resolvable.
C1_ReconcileTracking ==
    [][ ReconcileStep =>
          /\ Tracked' = (Tracked \cap OpenMarkdown) \cup Resolvable
          /\ Tracked' \subseteq OpenMarkdown
          /\ Resolvable \subseteq Tracked' ]_vars

C1_Witness ==
    /\ AfterReconcile
    /\ \E l \in Tracked : HasViewContent(l)
    /\ \E l \in Tracked : ~HasViewContent(l)

\* --------------------------------------------------------------------
\* C2: in every reachable state each pane has at most one overlay node
\* attached, and each entry of leafButtonContainers holds a node of its own.
C2_AtMostOneOverlayPerPane ==
    /\ \A l \in Leaves : Cardinality(AttachedOn(l)) <= 1
    /\ \A l1, l2 \in Tracked :
         leafButtonContainers[l1] = leafButtonContainers[l2] => l1 = l2

C2_Witness ==
    /\ last = "rebuild"
    /\ Cardinality(Tracked) = NumLeaves
    /\ \A l \in Leaves : Cardinality(AttachedOn(l)) = 1
    /\ activeLeaf \in Tracked

\* --------------------------------------------------------------------
\* C3 as stated: after handleActiveLeafChange(p) every tracked overlay is
\* marked visible exactly when its pane is p, and hidden otherwise.
C3_FocusMarksEveryTracked ==
    last = "focus" =>
        \A l \in Tracked :
            /\ Container(l).visible <=> (l = activeLeaf)
            /\ Container(l).hidden <=> (l # activeLeaf)

\* C3, amended: handleActiveLeafChange(p) marks the overlay of every tracked
\* pane whose view is a MarkdownView visible exactly when the pane is p and
\* hidden otherwise; the overlay of a tracked pane whose view is no longer a
\* MarkdownView is left as it was.
C3_FocusMarksMarkdownTracked ==
    [][ FocusStep =>
          /\ Tracked' = Tracked
          /\ \A l \in Tracked :
               IF IsMarkdownView(l)
               THEN /\ Container(l)'.visible <=> (l = activeLeaf')
                    /\ Container(l)'.hidden <=> (l # activeLeaf')
               ELSE Container(l)' = Container(l) ]_vars

C3_Witness ==
    /\ last = "focus"
    /\ Cardinality(Tracked) = NumLeaves
    /\ \A l \in Tracked : IsMarkdownView(l)
    /\ activeLeaf \in Tracked
    /\ Container(activeLeaf).visible
    /\ \A l \in Tracked \ { activeLeaf } : Container(l).hidden /\ ~Container(l).visible

\* --------------------------------------------------------------------
\* C4 as stated: while the plugin is active, a tracked overlay is marked
\* visible exactly when its pane is the focused pane.
C4_OnlyFocusedVisible ==
    phase = "ready" =>
        \A l \in Tracked : Container(l).visible <=> (l = activeLeaf)

\* The overlay of a tracked pane sits in the MarkdownView the pane holds now.
InCurrentView(l) ==
    /\ leaves[l].open
    /\ IsMarkdownView(l)
    /\ Container(l).view = leaves[l].view

\* C4, amended: while the plugin is active, every tracked overlay that sits in
\* the MarkdownView its pane currently holds is marked visible exactly when
\* the pane is the focused pane, and hidden otherwise; so at most one of them
\* is visible. An overlay left behind in a view its pane has replaced keeps
\* its marking.
C4_CurrentViewOverlayFollowsFocus ==
    phase = "ready" =>
        \A l \in Tracked :
            InCurrentView(l) =>
                /\ Container(l).visible <=> (l = activeLeaf)
                /\ Container(l).hidden <=> (l # activeLeaf)

C4_Witness ==
    /\ phase = "ready"
    /\ Cardinality(Tracked) = NumLeaves
    /\ \A l \in Tracked : InCurrentView(l)
    /\ activeLeaf \in Tracked
    /\ Container(activeLeaf).visible
    /\ last = "reconcile"

\* --------------------------------------------------------------------
\* C5: when reconciliation runs twice in succession (nothing but
\* layout-change notifications and the passage of time in between, so the
\* open-pane list is unchanged), the second run calls neither appendChild nor
\* remove and leaves leafButtonContainers and the containers as they were.
C5_SecondReconcileChangesNothing ==
    [][ (ReconcileStep /\ AfterReconcile) =>
          /\ handleLayoutChange(Heap).appended = 0
          /\ handleLayoutChange(Heap).removed = 0
          /\ leafButtonContainers' = leafButtonContainers
          /\ elems' = elems ]_vars

C5_Witness ==
    /\ last = "reconciledAgain"
    /\ \E l \in Tracked : Container(l).attached
    /\ \E l \in OpenMarkdown : l \notin Tracked

\* --------------------------------------------------------------------
\* A layout-change notification reaches the debounced handler.
EventStep == subscribed /\ timer' = DEBOUNCE_MS /\ << timer, burst >>' # << timer, burst >>

\* A burst waits for its run exactly while the timer is pending.
BurstPending == burst.n >= 1 /\ burst.runs = 0

\* What every burst of layout-change notifications gets, whatever its size:
\* nothing at a notification, one run DEBOUNCE_MS after the last one.
OneTrailingRun(runStep) ==
    /\ BurstPending <=> (timer # Idle)
    /\ EventStep =>
          /\ leafButtonContainers' = leafButtonContainers
          /\ elems' = elems
          /\ BurstPending'
    /\ runStep =>
          /\ BurstPending
          /\ burst.elapsed = DEBOUNCE_MS
          /\ burst'.runs = 1
          /\ ~BurstPending'
          /\ timer' = Idle

\* C6 as stated: N >= 1 layout-change notifications, each less than 300 ms
\* after the one before, cause exactly one reconciliation run, after the last
\* of them and none at the first, and the run uses the open-pane list as it
\* was at the last notification.
C6_OneRunOnListAsOfLastEvent ==
    [][ /\ OneTrailingRun(ReconcileStep)
        /\ ReconcileStep =>
              Tracked' = (Tracked \cap burst.seen)
                         \cup { l \in burst.seen : IsMarkdownView(l) /\ HasViewContent(l) } ]_vars

\* C6, amended: N >= 1 layout-change notifications, each less than 300 ms
\* after the one before, cause exactly one reconciliation run, 300 ms after the
\* last of them and none at the first, and the run uses the open-pane list as
\* it is when the run executes, pane changes made after the last notification
\* included.
C6_OneRunOnListAtRunTime ==
    [][ /\ OneTrailingRun(ReconcileStep)
        /\ ReconcileStep =>
              Tracked' = (Tracked \cap OpenMarkdown) \cup Resolvable ]_vars

C6_Witness ==
    /\ burst.n = MaxBurst
    /\ burst.runs = 1
    /\ timer = Idle
    /\ Tracked # {}
    /\ Tracked = Resolvable

\* --------------------------------------------------------------------
\* C7: immediately after onunload, however many panes were tracked, no
\* overlay node is attached to any pane, leafButtonContainers is empty, the
\* style node is detached and styleEl is null.
C7_UnloadCleansUp ==
    [][ UnloadStep =>
          /\ AttachedElems' = {}
          /\ Tracked' = {}
          /\ headStyles' = 0
          /\ styleEl' = NullStyle ]_vars

C7_Witness ==
    /\ last = "unload"
    /\ Cardinality(Resolvable) = NumLeaves
    /\ AttachedElems = {}
    /\ Tracked = {}
    /\ headStyles = 0

\* --------------------------------------------------------------------
\* C8 as stated: updateAllButtons leaves the set of tracked panes unchanged.
C8_RebuildKeepsTrackedSet ==
    [][ RebuildStep => Tracked' = Tracked ]_vars

\* C8, amended: updateAllButtons leaves untouched the entries of the panes
\* that are not open markdown panes; of the open markdown panes it tracks
\* afterwards exactly those whose '.view-content' is resolvable, whether or
\* not they were tracked before. The tracked set is therefore unchanged
\* exactly when the tracked open markdown panes were the resolvable ones.
C8_RebuildTracking ==
    [][ RebuildStep =>
          /\ Tracked' = (Tracked \ OpenMarkdown) \cup Resolvable
          /\ \A l \in Tracked \ OpenMarkdown : Container(l)' = Container(l) ]_vars

C8_Witness ==
    /\ last = "rebuild"
    /\ \E l \in Tracked : l \notin OpenMarkdown
    /\ \E l \in Tracked : l \in Resolvable
    /\ OpenMarkdown \ Tracked = {}

\* --------------------------------------------------------------------
\* C9 as stated: after updateAllButtons every tracked overlay is one built
\* from the current settings.
C9_RebuildRenewsEveryTracked ==
    last = "rebuild" =>
        \A l \in Tracked :
            Container(l).buttons = OverlayButtons(settings, Container(l).view)

\* C9, amended: after updateAllButtons the overlay of every tracked pane that
\* is an open markdown pane has been removed and built again from the current
\* settings, in the view the pane holds; the overlay of a tracked pane that is
\* not an open markdown pane (closed, or showing another view, until the next
\* reconciliation) is not rebuilt.
C9_RebuildRenewsOpenTracked ==
    last = "rebuild" =>
        \A l \in Tracked \cap OpenMarkdown :
            /\ Container(l).attached
            /\ Container(l).view = leaves[l].view
            /\ Container(l).buttons = OverlayButtons(settings, leaves[l].view)

C9_Witness ==
    /\ last = "rebuild"
    /\ settings.invertButtonOrder
    /\ Cardinality(Tracked \cap OpenMarkdown) = NumLeaves
    /\ \A l \in Tracked : Container(l).buttons[1].action = "bottom"

\* --------------------------------------------------------------------
\* C10: a reconciliation run that meets an untracked open markdown pane whose
\* '.view-content' is not found attaches nothing for it and adds no entry,
\* and still creates and tracks the overlay of every untracked open markdown
\* pane whose '.view-content' is found, in this run or in a later one.
C10_LookupMissIsSkipped ==
    [][ ReconcileStep =>
          \A l \in OpenMarkdown \ Tracked :
              IF HasViewContent(l)
              THEN /\ l \in Tracked'
                   /\ Container(l)'.attached
                   /\ Container(l)'.pane = l
                   /\ Container(l)'.view = leaves[l].view
                   /\ AttachedOn(l)' = { leafButtonContainers'[l] }
              ELSE /\ l \notin Tracked'
                   /\ AttachedOn(l)' = AttachedOn(l) ]_vars

C10_Witness ==
    /\ AfterReconcile
    /\ \E l \in OpenMarkdown : ~HasViewContent(l) /\ l \notin Tracked /\ AttachedOn(l) = {}
    /\ \E l \in Resolvable : l \in Tracked /\ Container(l).attached

\* --------------------------------------------------------------------
\* C11 as stated: every tracked pane is a currently open pane in every
\* reachable state, and no operation (deactivation aside) removes the entry of
\* a pane that is still open.
C11_EntriesRemovedExactlyAtClose ==
    [][ /\ \A l \in Tracked : leaves[l].open
        /\ ~UnloadStep => \A l \in Tracked \ Tracked' : ~leaves[l].open ]_vars

\* C11, amended: the entry of a closed pane stays until the next
\* reconciliation run, after which every tracked pane is an open markdown
\* pane. Reconciliation removes exactly the entries of the panes that are no
\* longer open markdown panes (closed, or open with another view); a rebuild
\* removes only entries of open markdown panes whose '.view-content' lookup
\* misses; deactivation removes every entry; no other operation removes one.
C11_EntriesRemovedAtReconcile ==
    [][ /\ ReconcileStep =>
              /\ Tracked' \subseteq OpenMarkdown
              /\ Tracked \ Tracked' = Tracked \ OpenMarkdown
        /\ \A l \in Tracked \ Tracked' :
              \/ ReconcileStep /\ l \notin OpenMarkdown
              \/ RebuildStep /\ l \in OpenMarkdown /\ ~HasViewContent(l)
              \/ UnloadStep ]_vars

C11_Witness ==
    /\ last = "reconcile"
    /\ phase = "ready"
    /\ Tracked # {}
    /\ \E l \in Leaves : leaves[l].open /\ ~IsMarkdownView(l) /\ l \notin Tracked
                         /\ AttachedOn(l) = {}

\* --------------------------------------------------------------------
\* C12: handleActiveLeafChange changes nothing but the visible/hidden marking
\* of containers: leafButtonContainers keeps its keys and values, no container
\* is detached, and a container it marks hidden stays attached and tracked.
C12_FocusChangesMarkingOnly ==
    [][ FocusStep =>
          /\ leafButtonContainers' = leafButtonContainers
          /\ \A e \in ElemIds :
                elems'[e] = [ elems[e] EXCEPT !.visible = elems'[e].visible,
                                              !.hidden = elems'[e].hidden ]
          /\ \A l \in Tracked :
                Container(l)'.hidden =>
                    l \in Tracked' /\ Container(l)'.attached = Container(l).attached ]_vars

C12_Witness ==
    /\ last = "focus"
    /\ activeLeaf = NoLeaf
    /\ Cardinality(Tracked) = NumLeaves
    /\ \A l \in Tracked : Container(l).hidden /\ ~Container(l).visible /\ Container(l).attached

\* --------------------------------------------------------------------
\* A pane opens or closes, or a layout-change notification arrives.
HostStep == OpenLeafNotified \/ CloseLeafNotified \/ LayoutChangeEvent

\* C13: when panes open and close, each change notified by a layout-change
\* event, and the events stop arriving, a reconciliation run follows the last
\* of them and from then on the tracked panes are the open markdown panes whose
\* '.view-content' is resolvable, as long as the plugin is active.
C13_NoPaneChangeLost ==
    \/ []<><<HostStep>>_vars
    \/ <>[](phase = "ready" => timer = Idle /\ Tracked = Resolvable)

C13_Witness ==
    /\ phase = "ready"
    /\ burst.n = MaxBurst
    /\ burst.runs = 1
    /\ timer = Idle
    /\ Tracked = Resolvable
    /\ Tracked # {}
    /\ \E l \in Leaves : ~leaves[l].open

\* --------------------------------------------------------------------
\* C14: a settings-form mutation is followed by an overlay rebuild and a
\* stylesheet regeneration from the in-memory settings also when saveData
\* fails: once the failed save has settled, no overlay of an open markdown
\* pane and no style text reflects older settings.
C14_FailedSaveStillRebuilds ==
    (last = "saveFailed" /\ saves = 0) =>
        /\ \A l \in Tracked \cap OpenMarkdown :
              Container(l).buttons = OverlayButtons(settings, Container(l).view)
        /\ styleEl.exists => styleEl.text = StyleText(settings)

\* --------------------------------------------------------------------
\* The call has returned.
Returned == iconColor # "none"

\* hexColor is '#' followed by n hex digits.
IsHexColorOf(n) ==
    /\ Len(hexColor) = n + 1
    /\ hexColor[1] = "#"
    /\ \A i \in 2..(n + 1) : IsHexDigit(hexColor[i])

Red == 16 * HexVal(hexColor[2]) + HexVal(hexColor[3])
Green == 16 * HexVal(hexColor[4]) + HexVal(hexColor[5])
Blue == 16 * HexVal(hexColor[6]) + HexVal(hexColor[7])
WeightedSum == 299 * Red + 587 * Green + 114 * Blue

\* C15 as stated: for every valid '#RRGGBB' the result is '#FFFFFF' when
\* 299R + 587G + 114B <= 127500 and '#000000' otherwise.
C15_ContrastByExactLuminance ==
    (Returned /\ IsHexColorOf(6)) =>
        iconColor = IF WeightedSum <= 127500 THEN "#FFFFFF" ELSE "#000000"

\* C15, amended: for every valid '#RRGGBB' the result is '#FFFFFF' when
\* 299R + 587G + 114B <= 127500 and '#000000' otherwise, except for '#DA3AF8'
\* (in either letter case), whose sum is 127500 and whose result is '#000000':
\* the double sum 0.299*218 + 0.587*58 + 0.114*248 rounds to a value above 127.5.
C15_ContrastByDoubleLuminance ==
    (Returned /\ IsHexColorOf(6)) =>
        iconColor = IF WeightedSum <= 127500 /\ << Red, Green, Blue >> # << 218, 58, 248 >>
                    THEN "#FFFFFF" ELSE "#000000"

C15_Witness ==
    /\ hexColor = << "#", "D", "A", "3", "A", "F", "8" >>
    /\ WeightedSum = 127500
    /\ iconColor = "#000000"

\* --------------------------------------------------------------------
\* C16 as stated: a valid input whose luminance is exactly 0.5, such as
\* '#6282C0', gives '#000000'.
C16_TieGivesBlack ==
    (Returned /\ IsHexColorOf(6) /\ WeightedSum = 127500) => iconColor = "#000000"

\* C16, amended: a valid input whose luminance the code computes as exactly
\* 0.5 or just below it, such as '#6282C0', gives '#FFFFFF': the test is
\* luminance > 0.5, so the threshold is inclusive in favour of white. (Of the
\* inputs with 299R + 587G + 114B = 127500 only '#DA3AF8' computes above 0.5.)
C16_TieGivesWhite ==
    (Returned /\ IsHexColorOf(6) /\ WeightedSum = 127500
       /\ << Red, Green, Blue >> # << 218, 58, 248 >>) => iconColor = "#FFFFFF"

C16_Witness ==
    /\ hexColor = << "#", "6", "2", "8", "2", "C", "0" >>
    /\ WeightedSum = 127500
    /\ iconColor = "#FFFFFF"

\* --------------------------------------------------------------------
\* hexColor has four or more characters and is malformed: a character after
\* the first is no hex digit, or the length is neither 4 nor 7.
Malformed ==
    /\ Len(hexColor) >= 4
    /\ \/ \E i \in 2..Len(hexColor) : ~IsHexDigit(hexColor[i])
       \/ Len(hexColor) \notin { 4, 7 }

\* C17: getContrastColor returns '#000000' for every malformed input of four
\* or more characters.
C17_MalformedGivesBlack ==
    (Returned /\ Malformed) => iconColor = "#000000"

\* --------------------------------------------------------------------
\* C18: getContrastColor returns '#000000' for the empty string and for every
\* input of fewer than four characters.
C18_ShortGivesBlack ==
    (Returned /\ Len(hexColor) < 4) => iconColor = "#000000"

C18_Witness ==
    /\ hexColor = << "#", "0", "0" >>
    /\ iconColor = "#000000"

\* --------------------------------------------------------------------
\* C19: for every triple of hex digits r, g, b, getContrastColor('#rgb') is
\* getContrastColor('#rrggbb').
C19_ShorthandIsExpanded ==
    (Returned /\ IsHexColorOf(3)) =>
        iconColor = getContrastColor(<< "#", hexColor[2], hexColor[2], hexColor[3],
                                        hexColor[3], hexColor[4], hexColor[4] >>)

C19_Witness ==
    /\ hexColor = << "#", "a", "8", "0" >>
    /\ iconColor = "#000000"

\* --------------------------------------------------------------------
\* What the buttons of pane l's overlay do, in DOM order.
ButtonActions(l) ==
    [ i \in 1..Len(Container(l).buttons) |-> Container(l).buttons[i].action ]

\* C20: for every combination of showScrollTopButton, showScrollBottomButton
\* and invertButtonOrder the overlay holds exactly the enabled buttons: with
\* both enabled, top before bottom when invertButtonOrder is false and bottom
\* before top when it is true; with one enabled, that button alone.
C20_EnabledButtonsInOrder ==
    \A l \in Tracked :
        ButtonActions(l) =
            IF settings.showScrollTopButton /\ settings.showScrollBottomButton
            THEN IF settings.invertButtonOrder
                 THEN << "bottom", "top" >> ELSE << "top", "bottom" >>
            ELSE IF settings.showScrollTopButton THEN << "top" >>
            ELSE IF settings.showScrollBottomButton THEN << "bottom" >>
            ELSE << >>

C20_Witness ==
    /\ settings.showScrollTopButton
    /\ settings.showScrollBottomButton
    /\ settings.invertButtonOrder
    /\ \E l \in Tracked : ButtonActions(l) = << "bottom", "top" >>
    /\ \A l \in Tracked : Len(Container(l).buttons) = 2

\* --------------------------------------------------------------------
\* The onLayoutReady callback runs.
LayoutReadyStep == phase = "loaded" /\ phase' = "ready"

\* C21: with showScrollTopButton and showScrollBottomButton both false, adding
\* an overlay to an untracked pane whose '.view-content' is resolvable (at
\* layout ready or in a reconciliation run) attaches a container in the pane's
\* view and tracks the pane, and the container holds no button.
C21_EmptyOverlayStillTracked ==
    [][ ( /\ LayoutReadyStep \/ ReconcileStep
          /\ ~settings.showScrollTopButton
          /\ ~settings.showScrollBottomButton ) =>
            \A l \in Resolvable \ Tracked :
                /\ l \in Tracked'
                /\ Container(l)'.attached
                /\ Container(l)'.pane = l
                /\ Container(l)'.view = leaves[l].view
                /\ Container(l)'.buttons = << >>
                /\ AttachedOn(l)' = { leafButtonContainers'[l] } ]_vars

C21_Witness ==
    /\ ~settings.showScrollTopButton
    /\ ~settings.showScrollBottomButton
    /\ phase = "ready"
    /\ Cardinality(Tracked) = NumLeaves
    /\ \A l \in Tracked : Container(l).attached /\ Container(l).buttons = << >>
    /\ timer = Idle

\* --------------------------------------------------------------------
\* A scrollToPosition call is made (a call that repeats the one before it,
\* arguments and outcome alike, leaves the record as it is).
ScrollStep == scroll' # scroll

\* C22: a 'scroll-to-top' or 'scroll-to-bottom' command run while there is no
\* active pane, or while the active pane's view is not a MarkdownView, is given
\* no view and makes no scroll request, and it changes nothing of the panes,
\* the tracked overlays, the style node, the settings or the timer.
C22_CommandWithoutViewIsNoOp ==
    [][ ( /\ ScrollStep
          /\ scroll'.by \in CommandIds
          /\ activeLeaf = NoLeaf \/ ~IsMarkdownView(activeLeaf) ) =>
            /\ scroll'.given = NoView
            /\ scroll'.request = NoRequest
            /\ UNCHANGED << phase, settings, leaves, activeLeaf, subscribed,
                            leafButtonContainers, elems, styleEl, headStyles, timer, saves,
                            commands, settingTab >> ]_vars

C22_Witness ==
    /\ scroll.by = "scroll-to-bottom"
    /\ scroll.given = NoView
    /\ scroll.request = NoRequest
    /\ activeLeaf # NoLeaf
    /\ leaves[activeLeaf].open
    /\ ~IsMarkdownView(activeLeaf)
    /\ Tracked # {}
    /\ \A l \in Tracked : Container(l).attached

\* --------------------------------------------------------------------
\* C23: scrollToPosition on a present view makes one request, to that view:
\* in source mode editor.scrollIntoView of line 0 for 'top' and of line
\* lineCount - 1 for 'bottom', centred; in preview mode scrollTo on the
\* '.markdown-preview-view' element with top 0 for 'top' and its scrollHeight
\* for 'bottom', smooth exactly when useAnimations is true (nothing when the
\* view has no such element). A command is given the active pane's view, a
\* button the view it was created for.
C23_ScrollsGivenViewByMode ==
    [][ (ScrollStep /\ scroll'.given # NoView) =>
          /\ scroll'.position \in { "top", "bottom" }
          /\ IF scroll'.mode = "source"
             THEN scroll'.request =
                    [ api |-> "scrollIntoView", target |-> scroll'.given,
                      line |-> IF scroll'.position = "top" THEN 0 ELSE scroll'.lineCount - 1,
                      center |-> TRUE, top |-> 0, behavior |-> "none" ]
             ELSE IF scroll'.previewEl
             THEN scroll'.request =
                    [ api |-> "scrollTo", target |-> scroll'.given, line |-> 0,
                      center |-> FALSE,
                      top |-> IF scroll'.position = "top" THEN 0 ELSE scroll'.scrollHeight,
                      behavior |-> IF settings.useAnimations THEN "smooth" ELSE "auto" ]
             ELSE scroll'.request = NoRequest
          /\ IF scroll'.by \in CommandIds
             THEN /\ scroll'.given = [ pane |-> activeLeaf, view |-> leaves[activeLeaf].view ]
                  /\ scroll'.position = IF scroll'.by = "scroll-to-top" THEN "top" ELSE "bottom"
             ELSE \E e \in AttachedElems : \E i \in 1..Len(elems[e].buttons) :
                    /\ elems[e].buttons[i].action = scroll'.position
                    /\ scroll'.given = [ pane |-> elems[e].pane,
                                         view |-> elems[e].buttons[i].view ] ]_vars

C23_Witness ==
    /\ scroll.by = "click"
    /\ scroll.position = "bottom"
    /\ scroll.mode = "preview"
    /\ scroll.scrollHeight = MaxScrollHeight
    /\ scroll.request.api = "scrollTo"
    /\ scroll.request.top = MaxScrollHeight
    /\ scroll.request.behavior = "auto"
    /\ ~settings.useAnimations
    /\ scroll.request.target.pane # activeLeaf

\* --------------------------------------------------------------------
\* C24: in every reachable state at most one plugin style node is attached to
\* document.head, and it is the one styleEl holds: none before activation,
\* exactly one from the end of onload until onunload, and none in any state
\* after onunload, also when a saveSettings continuation runs after it.
C24_AtMostOneStyleNode ==
    /\ headStyles <= 1
    /\ headStyles = IF styleEl.attached THEN 1 ELSE 0
    /\ phase = "constructed" => headStyles = 0
    /\ phase \in { "loaded", "ready" } => headStyles = 1 /\ styleEl.exists
    /\ phase = "unloaded" => headStyles = 0 /\ ~styleEl.exists

C24_Witness ==
    /\ phase = "unloaded"
    /\ last = "rebuild"
    /\ saves = 0
    /\ headStyles = 0
    /\ styleEl = NullStyle

\* --------------------------------------------------------------------
\* C27: once onunload has run, no overlay node is attached and
\* leafButtonContainers is empty in every later state, also when a debounce
\* timer or a saveSettings continuation was pending at deactivation.
C27_NoOverlayAfterUnload ==
    phase = "unloaded" => Tracked = {} /\ AttachedElems = {}

\* --------------------------------------------------------------------
\* C28: the overlay of every tracked pane that holds a markdown view is
\* attached inside the view the pane currently holds, and its buttons scroll
\* that view, also after the pane's view instance has been replaced by another
\* markdown view. Stated of the states a reconciliation run leaves, where the
\* tracker has had its chance to follow the replacement.
C28_OverlayFollowsReplacedView ==
    AfterReconcile =>
    \A l \in Tracked \cap OpenMarkdown :
        /\ Container(l).attached
        /\ Container(l).view = leaves[l].view
        /\ \A i \in 1..Len(Container(l).buttons) :
              Container(l).buttons[i].view = leaves[l].view

\* --------------------------------------------------------------------
\* The style text is regenerated: by addStyle in onload, by updateStyle in a
\* saveSettings continuation.
RegenerateStep ==
    \/ phase = "constructed" /\ phase' = "loaded"
    \/ RebuildStep

\* C25: after a regeneration the style node's text is a function of the
\* current values of horizontalPadding, verticalPadding, buttonSpacing and
\* animationSpeed alone (the four interpolations of the template, in its
\* order), whatever blob was loaded, whatever was edited before, and whatever
\* text the node held; so equal values of the four give equal text.
C25_StyleTextFromFourSettings ==
    [][ (RegenerateStep /\ styleEl'.exists) =>
          styleEl'.text = << settings'.horizontalPadding, settings'.verticalPadding,
                             settings'.buttonSpacing, settings'.animationSpeed >> ]_vars

C25_Witness ==
    /\ last = "rebuild"
    /\ "horizontalPadding" \notin DOMAIN loaded.data
    /\ "verticalPadding" \in DOMAIN loaded.data
    /\ "buttonSize" \in DOMAIN loaded.data
    /\ settings.buttonSize = "small"
    /\ styleEl.text = << 40, 60, settings.buttonSpacing, settings.animationSpeed >>

\* --------------------------------------------------------------------
\* The values a settings key can hold: its default, the persisted one and
\* those the form hands over.
DefinedValues(k) ==
    { DEFAULT_SETTINGS[k], PersistedValues[k] }
    \cup { in[k] : in \in { x \in FormEdits : k \in DOMAIN x } }

\* C26: after loadSettings on a blob holding any subset of the settings keys,
\* every settings key has a defined value: the persisted value when the key is
\* in the blob, the hard-coded default otherwise. After any sequence of form
\* edits every key still has a defined value, and the keys the form did not
\* edit hold what the load gave them.
C26_SettingsFullyPopulated ==
    loaded.done =>
        /\ DOMAIN settings = DOMAIN DEFAULT_SETTINGS
        /\ \A k \in DOMAIN DEFAULT_SETTINGS :
              /\ settings[k] \in DefinedValues(k)
              /\ (phase = "loaded" \/ k \notin FormKeys) =>
                    settings[k] = IF k \in DOMAIN loaded.data
                                  THEN loaded.data[k] ELSE DEFAULT_SETTINGS[k]

C26_Witness ==
    /\ loaded.done
    /\ DOMAIN loaded.data = { "buttonSize", "useAnimations", "verticalPadding" }
    /\ settings.buttonSize = "large"
    /\ ~settings.useAnimations
    /\ settings.verticalPadding = 60
    /\ settings.buttonSpacing = 12
    /\ settings.horizontalPadding = 40
    /\ last = "rebuild"

\* --------------------------------------------------------------------
\* C29 as stated: when two saveSettings calls overlap and both saveData writes
\* have resolved, every tracked overlay and the style text reflect the latest
\* in-memory settings.
C29_OverlappingSavesReflectLatest ==
    overlap = "bothDone" =>
        /\ \A l \in Tracked :
              Container(l).buttons = OverlayButtons(settings, Container(l).view)
        /\ styleEl.exists => styleEl.text = StyleText(settings)

\* C29, amended: when two saveSettings calls overlap and both saveData writes
\* have resolved, in either order, the style text and the overlay of every
\* tracked pane that sits in the markdown view its pane holds reflect the
\* latest in-memory settings, never the earlier ones. The overlay of a tracked
\* pane that is closed or shows another view, kept until the next
\* reconciliation, is not rebuilt and may show earlier settings.
C29_OverlappingSavesRenewCurrent ==
    overlap = "bothDone" =>
        /\ \A l \in Tracked :
              InCurrentView(l) =>
                  /\ Container(l).attached
                  /\ Container(l).buttons = OverlayButtons(settings, leaves[l].view)
        /\ styleEl.exists /\ styleEl.text = StyleText(settings)

C29_Witness ==
    /\ overlap = "bothDone"
    /\ settings.buttonSize = "small"
    /\ settings.horizontalPadding = 40
    /\ settings.invertButtonOrder
    /\ Cardinality(Tracked) = NumLeaves
    /\ \A l \in Tracked :
          /\ InCurrentView(l)
          /\ Container(l).buttons[1].size = "small"
          /\ Container(l).buttons[1].action = "bottom"
    /\ styleEl.text[1] = 40

\* --------------------------------------------------------------------
\* C30: during activation the settings are loaded before the commands, the
\* settings tab and the style node are registered, so whatever is registered
\* goes with loaded settings and the style text is built from them; before the
\* host reports layout ready no overlay exists, no handler is subscribed and
\* no reconciliation is pending; at layout ready every open markdown pane
\* whose '.view-content' is resolvable gets an attached overlay built from the
\* loaded settings, in the step in which the two handlers are subscribed, so
\* before either can run.
C30_ActivationOrder ==
    /\ [] ( /\ (commands # {} \/ settingTab \/ styleEl.exists) =>
                 /\ loaded.done
                 /\ settings = loadSettings(loaded.data)
                 /\ styleEl.exists => styleEl.text = StyleText(loadSettings(loaded.data))
            /\ phase = "loaded" =>
                 commands = CommandIds /\ settingTab /\ styleEl.attached
            /\ phase \in { "constructed", "loaded" } =>
                 /\ Tracked = {}
                 /\ AttachedElems = {}
                 /\ ~subscribed
                 /\ timer = Idle )
    /\ [][ LayoutReadyStep =>
              /\ ~subscribed
              /\ subscribed'
              /\ Tracked' = Resolvable
              /\ \A l \in Resolvable :
                    /\ Container(l)'.attached
                    /\ Container(l)'.view = leaves[l].view
                    /\ Container(l)'.buttons = OverlayButtons(settings, leaves[l].view)
              /\ timer' = Idle ]_vars

C30_Witness ==
    /\ phase = "ready"
    /\ subscribed
    /\ loaded.data # << >>
    /\ ~settings.useAnimations
    /\ styleEl.text[4] = 500
    /\ Cardinality(Resolvable) = NumLeaves
    /\ Tracked = Resolvable
    /\ \A l \in Tracked : ~Container(l).buttons[1].animated
    /\ timer = Idle
    /\ scroll = NoScroll

\* --------------------------------------------------------------------
\* C31: in every reachable state the overlay nodes attached to a pane's
\* content are exactly the values of leafButtonContainers: every attached node
\* is the value of the entry of the pane it was appended to, and every entry
\* holds a node that was created for its pane and is attached.
MapValues == { leafButtonContainers[l] : l \in Tracked }

C31_AttachedAreMapValues ==
    /\ AttachedElems = MapValues
    /\ \A l \in Tracked :
          /\ Container(l) # NoElem
          /\ Container(l).attached
          /\ Container(l).pane = l
    /\ \A e \in AttachedElems : leafButtonContainers[elems[e].pane] = e

C31_Witness ==
    /\ last = "rebuild"
    /\ \E l \in OpenMarkdown \ Tracked : ~HasViewContent(l)
    /\ \E l \in Tracked : Container(l).attached /\ ~InCurrentView(l)
    /\ Cardinality(AttachedElems) = 1

\* --------------------------------------------------------------------
\* The icons a list of buttons shows, in the order of the nodes.
Icons(bs) == [ i \in 1..Len(bs) |-> bs[i].icon ]

NoneEnabled(s) == ~s.showScrollTopButton /\ ~s.showScrollBottomButton

\* C32: for every combination of showScrollTopButton, showScrollBottomButton
\* and invertButtonOrder, the live preview of the settings tab shows the icons
\* of the buttons an overlay built from the same settings holds, in the same
\* order; it shows the text 'No buttons enabled' exactly when both buttons are
\* disabled, where the overlay is an empty container; and whenever saveSettings
\* has rebuilt the overlays, every overlay holds the buttons the preview shows.
C32_PreviewMatchesOverlay ==
    /\ [] ( previewContainer.exists =>
              /\ \A v \in ViewIds :
                    Icons(previewContainer.buttons) = Icons(OverlayButtons(settings, v))
              /\ previewContainer.text = (IF NoneEnabled(settings)
                                          THEN "No buttons enabled" ELSE "")
              /\ NoneEnabled(settings) =>
                    /\ previewContainer.buttons = << >>
                    /\ \A v \in ViewIds : OverlayButtons(settings, v) = << >> )
    /\ [][ (RebuildStep /\ previewContainer.exists) =>
              \A l \in Tracked' :
                  Icons(Container(l)'.buttons) = Icons(previewContainer'.buttons) ]_vars

C32_Witness ==
    /\ previewContainer.exists
    /\ last = "rebuild"
    /\ saves = 0
    /\ settings.invertButtonOrder
    /\ Icons(previewContainer.buttons) = << "scrollBottom", "scrollTop" >>
    /\ Tracked = Leaves
    /\ \A l \in Tracked : Icons(Container(l).buttons) = << "scrollBottom", "scrollTop" >>

\* --------------------------------------------------------------------
\* C33: in the legacy variant with auto-hide on, a pointer-over on a button
\* shows that button and restarts its hide timer with the full autoHideDelay,
\* and leaves every other button and its timer as they are; a document scroll
\* does the same to every button that has the listeners; and a button becomes
\* hidden only in the step in which its own timer expires, when the delay
\* passed to that timer has elapsed since the button's last activity event.
C33_AutoHidePerButton ==
    [][ \A b \in ButtonIds :
          /\ legacy'.last = Did("mouseover", b) =>
                /\ legacy'.nodes[b].opacity = "1"
                /\ legacy'.nodes[b].timeout = legacy.settings.autoHideDelay
                /\ \A c \in ButtonIds \ { b } : legacy'.nodes[c] = legacy.nodes[c]
          /\ (legacy'.last = Did("scroll", 0) /\ b \in AutoHideButtons(legacy)) =>
                /\ legacy'.nodes[b].opacity = "1"
                /\ legacy'.nodes[b].timeout = legacy.settings.autoHideDelay
          /\ (legacy'.nodes[b].opacity = "0" /\ legacy.nodes[b].opacity # "0") =>
                /\ legacy'.last = Did("hide", b)
                /\ legacy.nodes[b].timeout = 0
                /\ legacy.nodes[b].armed > 0
                /\ legacy.nodes[b].idle = legacy.nodes[b].armed ]_vars

C33_Witness ==
    /\ legacy.phase = "loaded"
    /\ legacy.last = Did("hide", 2)
    /\ legacy.floatingButtons = << 1, 2 >>
    /\ legacy.nodes[2].opacity = "0"
    /\ legacy.nodes[2].idle = MaxHideDelay
    /\ legacy.nodes[2].armed = MaxHideDelay
    /\ legacy.nodes[1].opacity = "1"
    /\ legacy.nodes[1].timeout = AUTO_HIDE_STEP_MS
    /\ legacy.nodes[1].idle = AUTO_HIDE_STEP_MS

\* --------------------------------------------------------------------
\* C34 as stated: in the legacy variant the document never holds more than
\* one plugin style node, whatever settings saves are made, and after onunload
\* no plugin style node and no floating button is attached.
C34_OneStyleNodeAndCleanUnload ==
    /\ legacy.headStyles <= 1
    /\ legacy.phase = "unloaded" =>
          /\ legacy.headStyles = 0
          /\ \A b \in ButtonIds : ~legacy.nodes[b].attached

\* --------------------------------------------------------------------
\* C35 as stated: in the legacy variant every scrollPartial call on a view in
\* source mode asks the editor for a line from 0 to lineCount - 1, for every
\* cursor line and every scrollStep: for 'up' the cursor line less scrollStep,
\* or 0 when that is negative; for 'down' the cursor line plus scrollStep, or
\* lineCount - 1 when that is beyond it.
C35_PartialScrollStaysInDocument ==
    (legacy.scroll.move \in { "up", "down" } /\ legacy.scroll.mode = "source") =>
        LET c == legacy.scroll
        IN  /\ c.api = "scrollIntoView"
            /\ c.step = legacy.settings.scrollStep
            /\ 0 <= c.line /\ c.line <= c.lineCount - 1
            /\ c.move = "up" =>
                  /\ c.cursor - c.step >= 0 => c.line = c.cursor - c.step
                  /\ c.cursor - c.step < 0 => c.line = 0
            /\ c.move = "down" =>
                  /\ c.cursor + c.step <= c.lineCount - 1 => c.line = c.cursor + c.step
                  /\ c.cursor + c.step > c.lineCount - 1 => c.line = c.lineCount - 1

\* C35, corrected: in the legacy variant every scrollPartial call on a view in
\* source mode asks the editor for max(0, cursor - scrollStep) on 'up' and for
\* min(lineCount - 1, cursor + scrollStep) on 'down', for every cursor line
\* and every integer scrollStep; that line is within [0, lineCount - 1] when
\* scrollStep is not negative. With a negative scrollStep only one side is
\* limited: 'up' gives cursor + |scrollStep| with no upper limit and 'down'
\* gives cursor - |scrollStep| with no lower limit.
C35_PartialScrollLimitedOnOneSide ==
    (legacy.scroll.move \in { "up", "down" } /\ legacy.scroll.mode = "source") =>
        LET c == legacy.scroll
        IN  /\ c.api = "scrollIntoView"
            /\ c.step = legacy.settings.scrollStep
            /\ c.move = "up" =>
                  /\ c.cursor - c.step >= 0 => c.line = c.cursor - c.step
                  /\ c.cursor - c.step < 0 => c.line = 0
            /\ c.move = "down" =>
                  /\ c.cursor + c.step <= c.lineCount - 1 => c.line = c.cursor + c.step
                  /\ c.cursor + c.step > c.lineCount - 1 => c.line = c.lineCount - 1
            /\ c.step >= 0 => (0 <= c.line /\ c.line <= c.lineCount - 1)
            /\ (c.step < 0 /\ c.move = "up") => c.line = c.cursor - c.step
            /\ (c.step < 0 /\ c.move = "down") => c.line = c.cursor + c.step

\* A click on the 'down' button, with a positive step, is held at the last
\* line of the longest document.
C35_Witness ==
    /\ legacy.scroll.by = "click"
    /\ legacy.scroll.move = "down"
    /\ legacy.scroll.mode = "source"
    /\ legacy.scroll.step > 0
    /\ legacy.scroll.cursor + legacy.scroll.step > legacy.scroll.lineCount - 1
    /\ legacy.scroll.cursor < legacy.scroll.lineCount - 1
    /\ legacy.scroll.line = legacy.scroll.lineCount - 1
    /\ legacy.scroll.lineCount = MaxLegacyLines

====
